---- MODULE Spec2Model ----
(***************************************************************************)
(* Scheduler + dispatch core of music-server.                              *)
(*                                                                         *)
(*   app/core/scheduler.py      Scheduler: tick, schedule calculator,      *)
(*                              administrative operations                  *)
(*   app/core/message_queue.py  MemoryQueue: the dispatch queue            *)
(*   app/models/scheduler_task.py  the registry's two tables               *)
(*                                                                         *)
(* The scheduler's worker thread, the consumers of the dispatch queue and   *)
(* the callers of the public store run beside the tick; each has its own   *)
(* specification over the same state.                                      *)
(*                                                                         *)
(* A row carries the columns the scheduler decides on; created_at,         *)
(* updated_at and description are written and only handed back by get and  *)
(* list, and are left out.                                                 *)
(* Time is the integer clock int(time.time()).  A nullable integer column  *)
(* holds NoneVal for NULL / None.  A string is a sequence of one-character *)
(* strings, so that split(), startswith() and int() are computed.          *)
(***************************************************************************)
EXTENDS Integers, Sequences, FiniteSets, TLC

\* ---------------------------------------------------------------- bounds
\* Task ids (uuid4 values) the registry can ever hold.
MaxTasks == 2
\* The clock runs from StartTime to MaxTime.
MaxTime == 2
\* WorkItems pushed over a whole run.
MaxDispatch == 2

StartTime == 1
NoneVal == -1

TaskIds == 1..MaxTasks

VARIABLES
    now,         \* time.time(), whole seconds
    tasks,       \* scheduler_task table: task_id -> committed row
    task_queue,  \* task_queue table: the committed audit records
    queue,       \* MemoryQueue._task_queue, head first
    dispatched,  \* per scheduler task: WorkItems pushed so far (push_task calls)
    nextId,      \* how many task ids add_scheduler_task has drawn
    lastOp,      \* the operation that produced this state
    running,     \* Scheduler._running
    worker,      \* where Scheduler._scheduler_thread is
    unfinished_tasks, \* queue.Queue.unfinished_tasks of _task_queue
    pushLog,     \* every item put into _task_queue, in put order
    popLog,      \* every item a pop_task call took, in order, with the caller
    consumers,   \* per consumer thread: where it is in pop_task
    drawn,       \* uuid4 values push_task has drawn
    lastQ,       \* the last queue call that returned or raised, and its result
    public_store, \* MemoryQueue._public_store: key -> entry
    sweep_now,   \* the time a cleanup pass in progress has read, else NoneVal
    lastStore,   \* the last store call and what it returned
    lastAdmin,   \* the last management call and what it returned
    cron_in,     \* the arguments of the last _parse_cron_next_run call
    cron_out,    \* what that call returned
    tick_running, \* _running as the worker's last loop body ended (history)
    store_lock,  \* MemoryQueue._store_lock: "free", or the thread holding it
                 \*   across steps
    sweep_keys,  \* expired_keys of the cleanup pass that holds the lock
    replaced,    \* the entry the last set_public overwrote (history)
    starters,    \* per calling thread: where it is in Scheduler.start
    thread_ref,  \* Scheduler._scheduler_thread: index into threads, 0 for None
    threads,     \* every loop thread created so far: where it is
    lastStart,   \* the start() call that has just returned, if one has
    getters,     \* per calling thread: where it is in get_scheduler, whether
                 \*   it went through the lock, and what it was returned
    global_ref,  \* _global_scheduler: the instance's number, 0 for None
    instances,   \* Scheduler() constructions so far
    starts,      \* per instance: start() calls made on it by get_scheduler
    global_lock, \* _scheduler_lock: the caller holding it, 0 when free
    session,     \* the tick's database session between its query and its
                 \*   commit: the time it read and the rows it loaded
    held         \* the ids whose latest committed pause, resume or delete
                 \*   is a pause

schedVars == <<now, tasks, task_queue, queue, dispatched, nextId, lastOp>>
loopVars == <<running, worker, tick_running>>
consumerVars == <<unfinished_tasks, pushLog, popLog, consumers, drawn, lastQ>>
storeVars == <<public_store, sweep_now, lastStore>>
adminVars == <<lastAdmin>>
cronVars == <<cron_in, cron_out>>
lockVars == <<store_lock, sweep_keys, replaced>>
startVars == <<starters, thread_ref, threads, lastStart>>
singletonVars == <<getters, global_ref, instances, starts, global_lock>>
raceVars == <<session, held>>
sideVars == <<lockVars, startVars, singletonVars, raceVars>>

vars == <<now, tasks, task_queue, queue, dispatched, nextId, lastOp,
          running, worker,
          unfinished_tasks, pushLog, popLog, consumers, drawn, lastQ,
          public_store, sweep_now, lastStore, lastAdmin, cron_in, cron_out,
          tick_running, store_lock, sweep_keys, replaced,
          starters, thread_ref, threads, lastStart,
          getters, global_ref, instances, starts, global_lock,
          session, held>>

\* ------------------------------------------------------- strings, integers
Digits == {"0", "1", "2", "3", "4", "5", "6", "7", "8", "9"}

DigitVal(c) ==
    CASE c = "0" -> 0 [] c = "1" -> 1 [] c = "2" -> 2 [] c = "3" -> 3
      [] c = "4" -> 4 [] c = "5" -> 5 [] c = "6" -> 6 [] c = "7" -> 7
      [] c = "8" -> 8 [] c = "9" -> 9

IsWhitespace(c) == c \in {" ", "\t"}

RECURSIVE SplitFrom(_, _, _)
\* str.split(): the maximal runs of non-whitespace characters of s, in order.
\* cur is the run being read, i the next position.
SplitFrom(s, i, cur) ==
    IF i > Len(s)
    THEN IF cur = <<>> THEN <<>> ELSE <<cur>>
    ELSE IF IsWhitespace(s[i])
         THEN IF cur = <<>>
              THEN SplitFrom(s, i + 1, <<>>)
              ELSE <<cur>> \o SplitFrom(s, i + 1, <<>>)
         ELSE SplitFrom(s, i + 1, Append(cur, s[i]))

Split(s) == SplitFrom(s, 1, <<>>)

RECURSIVE DecimalValue(_)
DecimalValue(ds) ==
    IF ds = <<>> THEN 0
    ELSE 10 * DecimalValue(SubSeq(ds, 1, Len(ds) - 1)) + DigitVal(ds[Len(ds)])

AllDigits(ds) == ds # <<>> /\ \A i \in 1..Len(ds) : ds[i] \in Digits

\* int(s) of a whitespace-free s: digits with an optional sign, else ValueError.
IntParses(s) ==
    \/ AllDigits(s)
    \/ Len(s) >= 2 /\ s[1] \in {"+", "-"} /\ AllDigits(Tail(s))

IntValue(s) ==
    IF s[1] = "-" THEN 0 - DecimalValue(Tail(s))
    ELSE IF s[1] = "+" THEN DecimalValue(Tail(s))
    ELSE DecimalValue(s)

\* --------------------------------------------------- schedule calculator
SecondsPerMinute == 60
SecondsPerHour == 3600
HoursPerDay == 24
\* Offset of the local time zone from UTC, seconds (datetime.fromtimestamp).
TzOffset == 0

\* datetime.fromtimestamp(now).hour
HourOf(t) == ((t + TzOffset) \div SecondsPerHour) % HoursPerDay

\* datetime.fromtimestamp(now).replace(minute=0, second=0).timestamp()
StartOfHour(t) == t - ((t + TzOffset) % SecondsPerHour)

StartsWithStep(f) == Len(f) >= 2 /\ f[1] = "*" /\ f[2] = "/"

\* _parse_cron_next_run reading one digit of the step: int(parts[0][2:3]).
ParseCronNextRunOneDigit(cron_expr, t) ==
    LET parts == Split(cron_expr) IN
    IF Len(parts) # 5 THEN NoneVal
    ELSE IF StartsWithStep(parts[1])
         THEN LET n == SubSeq(parts[1], 3, 3) IN
              IF IntParses(n) THEN t + IntValue(n) * SecondsPerMinute ELSE NoneVal
    ELSE IF parts[1] = <<"0">> /\ parts[2] = <<"*">>
         THEN IF HourOf(t) + 1 >= HoursPerDay THEN NoneVal
              ELSE StartOfHour(t) + SecondsPerHour
    ELSE t + SecondsPerHour

\* _parse_cron_next_run without the test of the field count: what has no
\* fifth field is read by its first two fields, an empty one raises inside.
ParseCronNextRunAnyCount(cron_expr, t) ==
    LET parts == Split(cron_expr) IN
    IF Len(parts) < 2 THEN NoneVal
    ELSE IF StartsWithStep(parts[1])
         THEN LET n == SubSeq(parts[1], 3, Len(parts[1])) IN
              IF IntParses(n) THEN t + IntValue(n) * SecondsPerMinute ELSE NoneVal
    ELSE IF parts[1] = <<"0">> /\ parts[2] = <<"*">>
         THEN IF HourOf(t) + 1 >= HoursPerDay THEN NoneVal
              ELSE StartOfHour(t) + SecondsPerHour
    ELSE t + SecondsPerHour

\* Scheduler._parse_cron_next_run: NoneVal for None.
ParseCronNextRun(cron_expr, t) ==
    LET parts == Split(cron_expr) IN
    IF Len(parts) # 5 THEN NoneVal
    ELSE IF StartsWithStep(parts[1])
         THEN LET n == SubSeq(parts[1], 3, Len(parts[1])) IN
              \* int() raising ValueError is caught: None
              IF IntParses(n) THEN t + IntValue(n) * SecondsPerMinute ELSE NoneVal
    ELSE IF parts[1] = <<"0">> /\ parts[2] = <<"*">>
         THEN \* datetime(y, m, d, hour + 1, 0, 0) raises ValueError for hour 24
              IF HourOf(t) + 1 >= HoursPerDay THEN NoneVal
              ELSE StartOfHour(t) + SecondsPerHour
    ELSE t + SecondsPerHour

\* What _parse_cron_next_run writes to the log on the way.
ParseCronLog(cron_expr, t) ==
    LET parts == Split(cron_expr) IN
    IF Len(parts) # 5 THEN "warning"
    ELSE IF StartsWithStep(parts[1])
         THEN IF IntParses(SubSeq(parts[1], 3, Len(parts[1])))
              THEN "none" ELSE "error"
    ELSE IF parts[1] = <<"0">> /\ parts[2] = <<"*">>
         THEN IF HourOf(t) + 1 >= HoursPerDay THEN "error" ELSE "none"
    ELSE "warning"

\* How a _parse_cron_next_run call ends: the value it returns, whether an
\* exception leaves it (the except clause catches every Exception), and the
\* level of what it logged.
CronResult(returned, value, raised, log) ==
    [returned |-> returned, value |-> value, raised |-> raised, log |-> log]

NoCronResult == CronResult(FALSE, NoneVal, FALSE, "none")

ParseCronOutcome(cron_expr, t) ==
    CronResult(TRUE, ParseCronNextRun(cron_expr, t), FALSE,
               ParseCronLog(cron_expr, t))

\* No _parse_cron_next_run call observed yet.
NoCronCall == [cron_expr |-> <<>>, now |-> 0, minutes |-> 0]

\* ------------------------------------------------- cron expressions
DigitChar(d) ==
    CASE d = 0 -> "0" [] d = 1 -> "1" [] d = 2 -> "2" [] d = 3 -> "3"
      [] d = 4 -> "4" [] d = 5 -> "5" [] d = 6 -> "6" [] d = 7 -> "7"
      [] d = 8 -> "8" [] d = 9 -> "9"

RECURSIVE DecimalString(_)
\* str(n) of a natural number
DecimalString(n) ==
    IF n < 10 THEN <<DigitChar(n)>>
    ELSE DecimalString(n \div 10) \o <<DigitChar(n % 10)>>

\* " * * * *" and "\t3  15 6 1": the four fields after the minute field
AllStars == <<" ", "*", " ", "*", " ", "*", " ", "*">>
OtherFields == <<"\t", "3", " ", " ", "1", "5", " ", "6", " ", "1">>

\* "*/N" followed by the other four fields
StepExpression(n, rest) == <<"*", "/">> \o DecimalString(n) \o rest

MaxMinutes == 12

\* "30 2 * * *", "* * * * * *" and "": a form the parser does not know, six
\* fields, none
HalfPastTwo == <<"3", "0", " ", "2">> \o SubSeq(AllStars, 3, 8)
SixFields == <<"*">> \o AllStars \o <<" ", "*">>
NoFields == <<>>

\* Times of day (seconds since the day began, local time): 37 minutes into
\* each hour, and the first and last second of the 13th and the 24th hour.
CronTimes ==
    {h * SecondsPerHour + 37 * SecondsPerMinute - TzOffset :
        h \in 0..(HoursPerDay - 1)}
    \cup {h * SecondsPerHour + s - TzOffset :
            h \in {12, HoursPerDay - 1}, s \in {0, SecondsPerHour - 1}}

StepTimes == {0, 12 * SecondsPerHour + 37 * SecondsPerMinute}

\* Scheduler._calculate_next_run
CalculateNextRun(task, t) ==
    IF task.schedule_type = "once" THEN NoneVal
    ELSE IF task.schedule_type = "interval"
         THEN IF task.interval_seconds # NoneVal /\ task.interval_seconds # 0
              THEN t + task.interval_seconds
              ELSE NoneVal
    ELSE IF task.schedule_type = "cron"
         THEN IF task.cron_expression # <<>>
              THEN ParseCronNextRun(task.cron_expression, t)
              ELSE NoneVal
    ELSE NoneVal

\* ------------------------------------------------------------ the registry
\* Cron expressions handed to add_scheduler_task.
EveryMinute == <<"*", "/", "1", " ", "*", " ", "*", " ", "*", " ", "*">>
Hourly == <<"0", " ", "*", " ", "*", " ", "*", " ", "*">>
FourFields == <<"*", "/", "1", " ", "*", " ", "*", " ", "*">>

\* The _parse_cron_next_run calls considered; minutes is the N the
\* expression was written from, 0 where it has none.
CronCalls ==
    {[cron_expr |-> StepExpression(n, rest), now |-> t, minutes |-> n] :
        n \in 1..MaxMinutes, rest \in {AllStars, OtherFields}, t \in StepTimes}
    \cup [cron_expr : {Hourly}, now : CronTimes, minutes : {0}]
    \cup [cron_expr : {FourFields, SixFields, NoFields, HalfPastTwo},
          now : StepTimes, minutes : {0}]

\* Largest interval_seconds and max_runs handed to add_scheduler_task.
MaxInterval == 1
MaxRuns == 1

\* json.dumps(params) if params else None: the params column of a new row.
DumpParams(params) == IF params = "empty" THEN "NULL" ELSE "json"

\* json.loads(params_str) if params_str else {}; "garbage" raises.
ParamsLoad(params_str) == params_str # "garbage"
LoadParams(params_str) == IF params_str = "NULL" THEN "empty" ELSE "object"

\* The arguments of one add_scheduler_task call.
AddInputs ==
    [schedule_type : {"once"}, params : {"empty"},
     interval_seconds : {NoneVal}, cron_expression : {<<>>},
     execute_at : {NoneVal, now + 1}, max_runs : {0}]
    \cup
    [schedule_type : {"interval"}, params : {"object"},
     interval_seconds : {NoneVal} \cup 1..MaxInterval, cron_expression : {<<>>},
     execute_at : {NoneVal}, max_runs : 0..MaxRuns]
    \cup
    [schedule_type : {"cron"}, params : {"object"},
     interval_seconds : {NoneVal}, cron_expression : {EveryMinute, FourFields},
     execute_at : {NoneVal}, max_runs : {0}]

\* SchedulerTask(...) as add_scheduler_task builds it; run_count takes the
\* column default, a max_runs of None too.
NewTask(inp, t) ==
    [name |-> "job", task_type |-> "work", params |-> DumpParams(inp.params),
     schedule_type |-> inp.schedule_type,
     interval_seconds |-> inp.interval_seconds,
     cron_expression |-> inp.cron_expression,
     execute_at |-> inp.execute_at,
     last_run_at |-> NoneVal,
     next_run_at |-> IF inp.execute_at # NoneVal /\ inp.execute_at # 0
                     THEN inp.execute_at ELSE t,
     run_count |-> 0, max_runs |-> inp.max_runs, enabled |-> TRUE]

\* IsDue with the comparison strict: a task whose next_run_at is now is missed.
IsDueStrict(task, t) ==
    task.enabled /\ task.next_run_at # NoneVal /\ task.next_run_at < t

\* IsDue with equality: only a task whose next_run_at is exactly now matches.
IsDueOnTheDot(task, t) ==
    task.enabled /\ task.next_run_at # NoneVal /\ task.next_run_at = t

\* IsDue without the enabled filter.
IsDueAnyState(task, t) ==
    task.next_run_at # NoneVal /\ task.next_run_at <= t

\* filter(enabled == True, next_run_at <= now): a NULL next_run_at never matches.
IsDue(task, t) ==
    task.enabled /\ task.next_run_at # NoneVal /\ task.next_run_at <= t

DueTasks == {id \in DOMAIN tasks : IsDue(tasks[id], now)}

\* -------------------------------------------------------------- the tick
\* ExecuteTask disabling one run late: run_count + 1 > max_runs.
ExecuteTaskLateDisable(task, t) ==
    IF task.params = "garbage"
    THEN [task |-> task, pushed |-> FALSE, failed |-> TRUE]
    ELSE LET ran == [task EXCEPT !.last_run_at = t,
                                 !.run_count = @ + 1,
                                 !.next_run_at = CalculateNextRun(task, t)]
             raises == task.schedule_type # "once" /\ task.max_runs = NoneVal
             disable == \/ task.schedule_type = "once"
                        \/ task.max_runs > 0 /\ task.run_count + 1 > task.max_runs
         IN IF raises
            THEN [task |-> ran, pushed |-> TRUE, failed |-> TRUE]
            ELSE [task |-> [ran EXCEPT !.enabled = IF disable THEN FALSE ELSE @],
                  pushed |-> TRUE, failed |-> FALSE]

\* Scheduler._execute_task on one row at tick time t: the row as the session
\* holds it afterwards, whether a WorkItem was pushed, whether it raised.
\* Nothing is undone when it raises: the except clause only logs.
ExecuteTask(task, t) ==
    IF ~ParamsLoad(task.params)
    THEN [task |-> task, pushed |-> FALSE, failed |-> TRUE]
    ELSE LET ran == [task EXCEPT !.last_run_at = t,
                                 !.run_count = @ + 1,
                                 !.next_run_at = CalculateNextRun(task, t)]
             \* None > 0 raises TypeError; "once" short-circuits the test
             raises == task.schedule_type # "once" /\ task.max_runs = NoneVal
             disable == \/ task.schedule_type = "once"
                        \/ task.max_runs > 0 /\ task.run_count + 1 >= task.max_runs
         IN IF raises
            THEN [task |-> ran, pushed |-> TRUE, failed |-> TRUE]
            ELSE [task |-> [ran EXCEPT !.enabled = IF disable THEN FALSE ELSE @],
                  pushed |-> TRUE, failed |-> FALSE]

\* The dict _execute_task pushes; uuid4 is the next unused number.
WorkItem(id, task, n) ==
    [task_id |-> n, type |-> task.task_type, params |-> LoadParams(task.params),
     scheduler_task_id |-> id, scheduler_task_name |-> task.name]

\* Scheduler._persist_task: the TaskQueue row added to the session.
AuditRecord(item, t) ==
    [task_id |-> item.task_id, task_type |-> item.type, status |-> "pending",
     priority |-> 0, created_at |-> t,
     scheduler_task_id |-> item.scheduler_task_id]

RECURSIVE SumOver(_, _)
SumOver(f, S) ==
    IF S = {} THEN 0
    ELSE LET x == CHOOSE y \in S : TRUE IN f[x] + SumOver(f, S \ {x})

TotalDispatched == SumOver(dispatched, TaskIds)

\* The orders in which the query may return the rows of S.
Orderings(S) ==
    {o \in [1..Cardinality(S) -> S] : \A i, j \in DOMAIN o : i # j => o[i] # o[j]}

RECURSIVE PushedItems(_, _, _)
\* The WorkItems the loop over `order` pushes, from position i, n pushed before.
PushedItems(order, i, n) ==
    IF i > Len(order) THEN <<>>
    ELSE IF ExecuteTask(tasks[order[i]], now).pushed
         THEN <<WorkItem(order[i], tasks[order[i]], n + 1)>>
              \o PushedItems(order, i + 1, n + 1)
         ELSE PushedItems(order, i + 1, n)

SeqRange(s) == {s[i] : i \in DOMAIN s}

\* What lastOp keeps of the operation that led here: its kind ("tick",
\* "pause", "resume", "other"), the id a pause or resume was given, and for a
\* tick whether the query was answered, whether the commit went through and
\* the scheduler tasks it pushed a WorkItem for.
Op(name, id, queried, committed, pushed) ==
    [op |-> name, id |-> id, queried |-> queried, committed |-> committed,
     pushed |-> pushed]

\* Scheduler._check_and_execute_tasks, the due-task query raising: rollback.
TickQueryFails ==
    /\ lastOp' = Op("tick", 0, FALSE, FALSE, {})
    /\ UNCHANGED <<now, tasks, task_queue, queue, dispatched, nextId>>

\* TickRuns without the per-task try/except: the first row that raises ends
\* the loop, the rows after it are not handled and the session is rolled back.
TickRunsAbort(order, commitOk) ==
    LET due == DueTasks
        fails(i) == ExecuteTask(tasks[order[i]], now).failed
        stop == IF \E i \in DOMAIN order : fails(i)
                THEN CHOOSE i \in DOMAIN order :
                        fails(i) /\ \A j \in 1..(i - 1) : ~fails(j)
                ELSE Len(order) + 1
        done == SubSeq(order, 1, stop - 1)
        stored == commitOk /\ stop > Len(order)
        items == PushedItems(done, 1, TotalDispatched)
        result(id) == ExecuteTask(tasks[id], now)
    IN /\ TotalDispatched + Cardinality(due) <= MaxDispatch
       /\ queue' = queue \o items
       /\ dispatched' = [id \in TaskIds |->
              IF id \in SeqRange(done) /\ result(id).pushed
              THEN dispatched[id] + 1 ELSE dispatched[id]]
       /\ IF stored
          THEN /\ tasks' = [id \in DOMAIN tasks |->
                     IF id \in due THEN result(id).task ELSE tasks[id]]
               /\ task_queue' = task_queue \cup
                     {AuditRecord(it, now) : it \in SeqRange(items)}
          ELSE UNCHANGED <<tasks, task_queue>>
       /\ lastOp' = Op("tick", 0, TRUE, stored,
                        {id \in SeqRange(done) : result(id).pushed})
       /\ UNCHANGED <<now, nextId>>

\* TickRuns with each row's changes stored as the row is handled: a commit
\* that raises at the end takes nothing back.
TickRunsStoresEach(order, commitOk) ==
    LET due == DueTasks
        items == PushedItems(order, 1, TotalDispatched)
        result(id) == ExecuteTask(tasks[id], now)
    IN /\ TotalDispatched + Cardinality(due) <= MaxDispatch
       /\ queue' = queue \o items
       /\ dispatched' = [id \in TaskIds |->
              IF id \in due /\ result(id).pushed
              THEN dispatched[id] + 1 ELSE dispatched[id]]
       /\ tasks' = [id \in DOMAIN tasks |->
              IF id \in due THEN result(id).task ELSE tasks[id]]
       /\ task_queue' = task_queue \cup
              {AuditRecord(it, now) : it \in SeqRange(items)}
       /\ lastOp' = Op("tick", 0, TRUE, commitOk,
                        {id \in due : result(id).pushed})
       /\ UNCHANGED <<now, nextId>>

\* Scheduler._check_and_execute_tasks with the query answered: every due row
\* is handled in query order, then one commit, which succeeds or raises.
\* A raising commit rolls the session back; the queue keeps what was pushed.
TickRuns(order, commitOk) ==
    LET due == DueTasks
        items == PushedItems(order, 1, TotalDispatched)
        result(id) == ExecuteTask(tasks[id], now)
    IN /\ TotalDispatched + Cardinality(due) <= MaxDispatch
       /\ queue' = queue \o items
       /\ dispatched' = [id \in TaskIds |->
              IF id \in due /\ result(id).pushed
              THEN dispatched[id] + 1 ELSE dispatched[id]]
       /\ IF commitOk
          THEN /\ tasks' = [id \in DOMAIN tasks |->
                     IF id \in due THEN result(id).task ELSE tasks[id]]
               /\ task_queue' = task_queue \cup
                     {AuditRecord(it, now) : it \in SeqRange(items)}
          ELSE UNCHANGED <<tasks, task_queue>>
       /\ lastOp' = Op("tick", 0, TRUE, commitOk,
                        {id \in due : result(id).pushed})
       /\ UNCHANGED <<now, nextId>>

Tick ==
    \/ TickQueryFails
    \/ \E order \in Orderings(DueTasks) : TickRuns(order, TRUE)
    \/ \E order \in Orderings(DueTasks) : TickRuns(order, FALSE)

\* ------------------------------------------- the tick, query then commit
\* No session: _check_and_execute_tasks is not between its query and its
\* commit.
NoSession == [open |-> FALSE, now |-> NoneVal, rows |-> <<>>]

\* The query answered: the session holds the rows as they were read.
TickSelect ==
    /\ ~session.open
    /\ TotalDispatched + Cardinality(DueTasks) <= MaxDispatch
    /\ session' = [open |-> TRUE, now |-> now,
                   rows |-> [id \in DueTasks |-> tasks[id]]]
    /\ UNCHANGED <<now, tasks, task_queue, queue, dispatched, nextId, lastOp>>

\* The flush writing the whole object back, the columns it did not set too.
FlushWholeRow(current, loaded, changed) == changed

\* The UPDATE a flush issues for one object: the columns whose value was
\* changed since the load are written, the others keep what the table has.
Flush(current, loaded, changed) ==
    [c \in DOMAIN current |->
        IF changed[c] # loaded[c] THEN changed[c] ELSE current[c]]

RECURSIVE SessionItems(_, _, _)
\* The WorkItems the loop over the loaded rows pushes, from position i.
SessionItems(order, i, n) ==
    IF i > Len(order) THEN <<>>
    ELSE IF ExecuteTask(session.rows[order[i]], session.now).pushed
         THEN <<WorkItem(order[i], session.rows[order[i]], n + 1)>>
              \o SessionItems(order, i + 1, n + 1)
         ELSE SessionItems(order, i + 1, n)

\* The loop over the loaded rows and the commit.  The commit raises, and the
\* session is rolled back, when it is made to or when a row it has to
\* update is no longer in the table.
TickCommit(order, commitOk) ==
    LET rows == session.rows
        result(id) == ExecuteTask(rows[id], session.now)
        items == SessionItems(order, 1, TotalDispatched)
        dirty == {id \in DOMAIN rows : result(id).task # rows[id]}
        stored == commitOk /\ dirty \subseteq DOMAIN tasks
    IN /\ session.open
       /\ queue' = queue \o items
       /\ dispatched' = [id \in TaskIds |->
              IF id \in DOMAIN rows /\ result(id).pushed
              THEN dispatched[id] + 1 ELSE dispatched[id]]
       /\ IF stored
          THEN /\ tasks' = [id \in DOMAIN tasks |->
                     IF id \in DOMAIN rows
                     THEN Flush(tasks[id], rows[id], result(id).task)
                     ELSE tasks[id]]
               /\ task_queue' = task_queue \cup
                     {AuditRecord(it, session.now) : it \in SeqRange(items)}
          ELSE UNCHANGED <<tasks, task_queue>>
       /\ lastOp' = Op("tick", 0, TRUE, stored,
                        {id \in DOMAIN rows : result(id).pushed})
       /\ session' = NoSession
       /\ UNCHANGED <<now, nextId, held>>

\* ------------------------------------------------ administrative operations
\* Scheduler.add_scheduler_task
Add(inp) ==
    /\ nextId < MaxTasks
    /\ nextId' = nextId + 1
    /\ tasks' = tasks @@ ((nextId + 1) :> NewTask(inp, now))
    /\ lastOp' = Op("other", 0, FALSE, FALSE, {})
    /\ UNCHANGED <<now, task_queue, queue, dispatched>>

\* Scheduler.pause_task on a known id
Pause(id) ==
    /\ id \in DOMAIN tasks
    /\ tasks' = [tasks EXCEPT ![id].enabled = FALSE]
    /\ lastOp' = Op("pause", id, FALSE, FALSE, {})
    /\ UNCHANGED <<now, task_queue, queue, dispatched, nextId>>

\* Resume computing a new first run: next_run_at = now.
ResumeReschedules(id) ==
    /\ id \in DOMAIN tasks
    /\ tasks' = [tasks EXCEPT ![id].enabled = TRUE, ![id].next_run_at = now]
    /\ lastOp' = Op("resume", id, FALSE, FALSE, {})
    /\ UNCHANGED <<now, task_queue, queue, dispatched, nextId>>

\* Scheduler.resume_task on a known id
Resume(id) ==
    /\ id \in DOMAIN tasks
    /\ tasks' = [tasks EXCEPT ![id].enabled = TRUE]
    /\ lastOp' = Op("resume", id, FALSE, FALSE, {})
    /\ UNCHANGED <<now, task_queue, queue, dispatched, nextId>>

\* Delete keeping the row, disabled.
DeleteDisables(id) ==
    /\ id \in DOMAIN tasks
    /\ tasks' = [tasks EXCEPT ![id].enabled = FALSE]
    /\ lastOp' = Op("other", 0, FALSE, FALSE, {})
    /\ UNCHANGED <<now, task_queue, queue, dispatched, nextId>>

\* Scheduler.delete_task on a known id
Delete(id) ==
    /\ id \in DOMAIN tasks
    /\ tasks' = [x \in DOMAIN tasks \ {id} |-> tasks[x]]
    /\ lastOp' = Op("other", 0, FALSE, FALSE, {})
    /\ UNCHANGED <<now, task_queue, queue, dispatched, nextId>>

\* ----------------------------------------------------------- environment
\* A second passes on the wall clock.
AdvanceTime ==
    /\ now < MaxTime
    /\ now' = now + 1
    /\ lastOp' = Op("other", 0, FALSE, FALSE, {})
    /\ UNCHANGED <<tasks, task_queue, queue, dispatched, nextId>>

\* A row written outside add_scheduler_task: the params column is free text
\* and max_runs is nullable with a client-side default only.  One such edit
\* per row; max_runs is nulled on interval rows.
RegistryEdit(id, column) ==
    /\ id \in DOMAIN tasks
    /\ tasks[id].params # "garbage" /\ tasks[id].max_runs # NoneVal
    /\ \/ column = "params"
          /\ tasks' = [tasks EXCEPT ![id].params = "garbage"]
       \/ column = "max_runs" /\ tasks[id].max_runs = 0
          /\ tasks[id].schedule_type = "interval"
          /\ tasks' = [tasks EXCEPT ![id].max_runs = NoneVal]
    /\ lastOp' = Op("other", 0, FALSE, FALSE, {})
    /\ UNCHANGED <<now, task_queue, queue, dispatched, nextId>>

\* ------------------------------------------------------------ the clock
\* time.time() moves on by a second, up to limit.
Elapse(limit) == now < limit /\ now' = now + 1

\* The clock of the queue's and the store's specifications runs to MaxClock.
MaxClock == 3

\* ------------------------------------------------------ the worker thread
\* What a tick puts on the queue reaches queue.Queue.put: pushLog and the
\* unfinished counter follow the items the tick appended.
TickPut ==
    /\ pushLog' = pushLog \o SubSeq(queue', Len(queue) + 1, Len(queue'))
    /\ unfinished_tasks' = unfinished_tasks + (Len(queue') - Len(queue))
    /\ UNCHANGED <<popLog, consumers, drawn, lastQ>>

\* The thread object exists and has not run off the end of _scheduler_worker.
WorkerAlive == worker \in {"check", "ticking", "sleep", "backoff"}

\* Scheduler.start: no second thread while one is alive.
Start ==
    /\ ~WorkerAlive
    /\ running' = TRUE
    /\ worker' = "check"
    /\ UNCHANGED <<tick_running, schedVars, consumerVars, storeVars, adminVars, cronVars, sideVars>>

\* Scheduler.stop: clears the flag; the join waits for the thread at most 10 s.
Stop ==
    /\ running
    /\ running' = FALSE
    /\ UNCHANGED <<worker, tick_running, schedVars, consumerVars, storeVars, adminVars, cronVars, sideVars>>

\* The while test finds _running true: the thread enters the loop body.
WorkerEnter ==
    /\ worker = "check" /\ running
    /\ worker' = "ticking"
    /\ UNCHANGED <<running, tick_running, schedVars, consumerVars, storeVars,
                   adminVars, cronVars, sideVars>>

\* A loop body that looks at _running again before it works and, finding it
\* false, leaves without a tick.
WorkerTickCancellable ==
    /\ worker = "ticking"
    /\ IF running
       THEN Tick /\ TickPut /\ worker' = "sleep"
       ELSE /\ worker' = "exited"
            /\ UNCHANGED <<schedVars, consumerVars>>
    /\ tick_running' = running
    /\ UNCHANGED <<running, storeVars, adminVars, cronVars, sideVars>>

\* _scheduler_worker, one pass of the loop body that returns normally:
\* _check_and_execute_tasks catches what the query, the tasks and the commit
\* raise, so the pass goes on to time.sleep(self._check_interval). Nothing in
\* the body reads _running.
WorkerTick ==
    /\ worker = "ticking"
    /\ Tick /\ TickPut
    /\ worker' = "sleep"
    /\ tick_running' = running
    /\ UNCHANGED <<running, storeVars, adminVars, cronVars, sideVars>>

\* _scheduler_worker, a pass in which _check_and_execute_tasks itself raises:
\* only what lies outside its try (SessionLocal()) or inside its handlers
\* (db.rollback(), db.close()) can; the worker logs and sleeps 5 s.
WorkerTickEscapes ==
    /\ worker = "ticking"
    /\ lastOp' = Op("tick", 0, FALSE, FALSE, {})
    /\ worker' = "backoff"
    /\ tick_running' = running
    /\ UNCHANGED <<now, tasks, task_queue, queue, dispatched, nextId,
                   running, consumerVars, storeVars, adminVars, cronVars, sideVars>>

\* time.sleep returns: back to the while test.
WorkerWake ==
    /\ worker \in {"sleep", "backoff"}
    /\ worker' = "check"
    /\ UNCHANGED <<running, tick_running, schedVars, consumerVars, storeVars,
                   adminVars, cronVars, sideVars>>

\* The while test finds _running false: the thread ends.
WorkerExit ==
    /\ worker = "check" /\ ~running
    /\ worker' = "exited"
    /\ UNCHANGED <<running, tick_running, schedVars, consumerVars, storeVars,
                   adminVars, cronVars, sideVars>>

\* --------------------------------------- start and stop, statement by statement
\* Threads that call start() and stop(), and the loop threads they may
\* create in all.
MaxCallers == 2
Callers == 1..MaxCallers
MaxThreads == 2

\* What lastStart keeps of a start() call that returned: its caller and
\* whether it returned at the is_alive test.
StartResult(name, caller, early) ==
    [op |-> name, caller |-> caller, early |-> early]
NoStart == StartResult("none", 0, FALSE)

\* threading.Thread.is_alive of loop thread i
IsAlive(i) == threads[i] # "exited"
LiveThreads == {i \in DOMAIN threads : IsAlive(i)}

\* Scheduler.start, the test: with a thread object that is alive the call
\* warns and returns, leaving _running as it is.
StartCheck(c) ==
    /\ starters[c] = "idle"
    /\ IF thread_ref # 0 /\ IsAlive(thread_ref)
       THEN /\ lastStart' = StartResult("start", c, TRUE)
            /\ UNCHANGED starters
       ELSE /\ starters' = [starters EXCEPT ![c] = "checked"]
            /\ lastStart' = NoStart
    /\ UNCHANGED <<thread_ref, threads, running>>

\* Scheduler.start after the test: the flag is set, a thread is created,
\* stored and started.
StartSpawn(c) ==
    /\ starters[c] = "checked"
    /\ Len(threads) < MaxThreads
    /\ running' = TRUE
    /\ threads' = Append(threads, "check")
    /\ thread_ref' = Len(threads) + 1
    /\ starters' = [starters EXCEPT ![c] = "idle"]
    /\ lastStart' = StartResult("start", c, FALSE)

\* Scheduler.stop: the flag is cleared; the join gives up after 10 s, so the
\* call may return with the thread alive.
StopCall ==
    /\ running
    /\ running' = FALSE
    /\ lastStart' = NoStart
    /\ UNCHANGED <<starters, thread_ref, threads>>

\* Loop thread i moves from one place of _scheduler_worker to another.
ThreadGoes(i, from, to) ==
    /\ i \in DOMAIN threads /\ threads[i] \in from
    /\ threads' = [threads EXCEPT ![i] = to]
    /\ lastStart' = NoStart
    /\ UNCHANGED <<starters, thread_ref, running>>

\* _scheduler_worker of loop thread i: the while test, the body, the sleep.
ThreadEnter(i) == running /\ ThreadGoes(i, {"check"}, "ticking")
ThreadExit(i) == ~running /\ ThreadGoes(i, {"check"}, "exited")
ThreadTick(i) == ThreadGoes(i, {"ticking"}, "sleep") /\ Tick /\ TickPut
ThreadTickEscapes(i) ==
    /\ ThreadGoes(i, {"ticking"}, "backoff")
    /\ lastOp' = Op("tick", 0, FALSE, FALSE, {})
    /\ UNCHANGED <<now, tasks, task_queue, queue, dispatched, nextId,
                   consumerVars>>
ThreadWake(i) == ThreadGoes(i, {"sleep", "backoff"}, "check")

\* ------------------------------------------------- the global singleton
\* Threads making their first get_scheduler() call (get_queue() has the
\* same shape); each could construct one instance at most.
MaxGetters == 3
Getters == 1..MaxGetters

\* A caller: its place in get_scheduler, whether it entered the lock, and
\* the instance it was returned (0 while it has not returned).
Getter(pc, locked, got) == [pc |-> pc, locked |-> locked, got |-> got]

GetterGoes(c, from, to) ==
    /\ getters[c].pc = from
    /\ getters' = [getters EXCEPT ![c].pc = to]

\* `if _global_scheduler is None:` outside the lock
GetFirstTest(c) ==
    /\ GetterGoes(c, "idle", IF global_ref = 0 THEN "wait" ELSE "return")
    /\ UNCHANGED <<global_ref, instances, starts, global_lock>>

\* `with _scheduler_lock:` entered
GetAcquire(c) ==
    /\ getters[c].pc = "wait" /\ global_lock = 0
    /\ global_lock' = c
    /\ getters' = [getters EXCEPT ![c].pc = "second", ![c].locked = TRUE]
    /\ UNCHANGED <<global_ref, instances, starts>>

\* The test inside the lock left out: whoever enters constructs.
GetSecondTestSkipped(c) ==
    /\ GetterGoes(c, "second", "construct")
    /\ UNCHANGED <<global_ref, instances, starts, global_lock>>

\* `if _global_scheduler is None:` inside the lock; if it is not, the lock
\* is left.
GetSecondTest(c) ==
    /\ GetterGoes(c, "second", IF global_ref = 0 THEN "construct" ELSE "return")
    /\ global_lock' = IF global_ref = 0 THEN global_lock ELSE 0
    /\ UNCHANGED <<global_ref, instances, starts>>

\* `_global_scheduler = Scheduler()`
GetConstruct(c) ==
    /\ GetterGoes(c, "construct", "start")
    /\ instances' = instances + 1
    /\ global_ref' = instances + 1
    /\ UNCHANGED <<starts, global_lock>>

\* `_global_scheduler.start()`, and the lock is left
GetStart(c) ==
    /\ GetterGoes(c, "start", "return")
    /\ starts' = [starts EXCEPT ![global_ref] = @ + 1]
    /\ global_lock' = 0
    /\ UNCHANGED <<global_ref, instances>>

\* `return _global_scheduler`
GetReturn(c) ==
    /\ getters[c].pc = "return"
    /\ getters' = [getters EXCEPT ![c].pc = "done", ![c].got = global_ref]
    /\ UNCHANGED <<global_ref, instances, starts, global_lock>>

\* ------------------------------------------------------ the dispatch queue
\* Consumer threads of the worker pool.
MaxConsumers == 2
Consumers == 1..MaxConsumers

\* push_task calls of a run of the queue's specification.
MaxPush == 2

\* The task_id a caller supplies; uuid4 values are 1, 2, ...
SuppliedId == 0

\* The dicts handed to push_task: with and without task_id, with and
\* without type.
PushInputs ==
    {[type |-> "work"], [task_id |-> SuppliedId, type |-> "work"],
     [task_id |-> SuppliedId], [params |-> "empty"]}

\* The timeouts handed to pop_task: None, a negative number, 0 and 1 second.
NegativeTimeout == 0 - 2
PopTimeouts == {NoneVal, NegativeTimeout, 0, 1}

\* What lastQ keeps of a queue call: the call, the calling consumer (0 for
\* the producer), whether it raised, whether it returned None, and the id
\* or the item it returned.
QResult(name, by, raised, none, id, item) ==
    [op |-> name, by |-> by, raised |-> raised, none |-> none, id |-> id,
     item |-> item]

Idle == [at |-> "idle", deadline |-> NoneVal]

\* PushTask drawing a new id for every item, supplied id or not.
PushTaskNewId(task) ==
    LET item == [k \in DOMAIN task \cup {"task_id"} |->
                    IF k = "task_id" THEN drawn + 1 ELSE task[k]]
    IN /\ Len(pushLog) < MaxPush /\ drawn < MaxPush
       /\ drawn' = drawn + 1
       /\ IF "type" \notin DOMAIN item
          THEN /\ lastQ' = QResult("push", 0, TRUE, FALSE, NoneVal, task)
               /\ UNCHANGED <<queue, pushLog, unfinished_tasks>>
          ELSE /\ queue' = Append(queue, item)
               /\ pushLog' = Append(pushLog, item)
               /\ unfinished_tasks' = unfinished_tasks + 1
               /\ lastQ' = QResult("push", 0, FALSE, FALSE, item.task_id, task)
       /\ UNCHANGED <<popLog, consumers>>

\* MemoryQueue.push_task: the id is drawn before the type is looked at.
PushTask(task) ==
    LET hasId == "task_id" \in DOMAIN task
        item == IF hasId THEN task ELSE task @@ ("task_id" :> (drawn + 1))
    IN /\ Len(pushLog) < MaxPush /\ drawn < MaxPush
       /\ drawn' = IF hasId THEN drawn ELSE drawn + 1
       /\ IF "type" \notin DOMAIN item
          THEN /\ lastQ' = QResult("push", 0, TRUE, FALSE, NoneVal, task)
               /\ UNCHANGED <<queue, pushLog, unfinished_tasks>>
          ELSE /\ queue' = Append(queue, item)
               /\ pushLog' = Append(pushLog, item)
               /\ unfinished_tasks' = unfinished_tasks + 1
               /\ lastQ' = QResult("push", 0, FALSE, FALSE, item.task_id, task)
       /\ UNCHANGED <<popLog, consumers>>

\* MemoryQueue.pop_task, entering queue.Queue.get(timeout=timeout): a
\* negative timeout raises ValueError, which pop_task does not catch;
\* otherwise the caller waits, to a deadline when a timeout is given.
PopBegin(c, timeout) ==
    /\ consumers[c].at = "idle"
    /\ IF timeout # NoneVal /\ timeout < 0
       THEN /\ lastQ' = QResult("pop", c, TRUE, FALSE, NoneVal, <<>>)
            /\ UNCHANGED consumers
       ELSE /\ consumers' = [consumers EXCEPT ![c] =
                  [at |-> "waiting",
                   deadline |-> IF timeout = NoneVal THEN NoneVal
                                ELSE now + timeout]]
            /\ lastQ' = QResult("wait", c, FALSE, FALSE, NoneVal, <<>>)
    /\ UNCHANGED <<queue, pushLog, popLog, unfinished_tasks, drawn>>

\* PopTake leaving the item in the queue.
PopTakeKeep(c) ==
    /\ consumers[c].at = "waiting" /\ queue # <<>>
    /\ Len(popLog) < MaxPush
    /\ queue' = queue
    /\ popLog' = Append(popLog, [item |-> Head(queue), by |-> c])
    /\ consumers' = [consumers EXCEPT ![c] = [at |-> "working", deadline |-> NoneVal]]
    /\ lastQ' = QResult("pop", c, FALSE, FALSE, NoneVal, Head(queue))
    /\ UNCHANGED <<pushLog, unfinished_tasks, drawn>>

\* PopTake taking the newest item.
PopTakeLast(c) ==
    /\ consumers[c].at = "waiting" /\ queue # <<>>
    /\ queue' = SubSeq(queue, 1, Len(queue) - 1)
    /\ popLog' = Append(popLog, [item |-> queue[Len(queue)], by |-> c])
    /\ consumers' = [consumers EXCEPT ![c] = [at |-> "working", deadline |-> NoneVal]]
    /\ lastQ' = QResult("pop", c, FALSE, FALSE, NoneVal, queue[Len(queue)])
    /\ UNCHANGED <<pushLog, unfinished_tasks, drawn>>

\* queue.Queue.get with an item there: the head leaves the queue under the
\* queue's mutex and pop_task returns it.
PopTake(c) ==
    /\ consumers[c].at = "waiting" /\ queue # <<>>
    /\ queue' = Tail(queue)
    /\ popLog' = Append(popLog, [item |-> Head(queue), by |-> c])
    /\ consumers' = [consumers EXCEPT ![c] = [at |-> "working", deadline |-> NoneVal]]
    /\ lastQ' = QResult("pop", c, FALSE, FALSE, NoneVal, Head(queue))
    /\ UNCHANGED <<pushLog, unfinished_tasks, drawn>>

\* queue.Queue.get finding the queue empty at or after the deadline raises
\* queue.Empty; pop_task returns None.
PopEmpty(c) ==
    /\ consumers[c].at = "waiting" /\ queue = <<>>
    /\ consumers[c].deadline # NoneVal /\ now >= consumers[c].deadline
    /\ consumers' = [consumers EXCEPT ![c] = Idle]
    /\ lastQ' = QResult("pop", c, FALSE, TRUE, NoneVal, <<>>)
    /\ UNCHANGED <<queue, pushLog, popLog, unfinished_tasks, drawn>>

\* TaskDone putting the head of the queue back at its tail.
TaskDoneRequeue(c) ==
    /\ consumers[c].at \in {"idle", "working"}
    /\ unfinished_tasks > 0
    /\ unfinished_tasks' = unfinished_tasks - 1
    /\ queue' = IF queue = <<>> THEN queue ELSE Append(Tail(queue), Head(queue))
    /\ lastQ' = QResult("ack", c, FALSE, FALSE, NoneVal, <<>>)
    /\ consumers' = [consumers EXCEPT ![c] = Idle]
    /\ UNCHANGED <<pushLog, popLog, drawn>>

\* MemoryQueue.task_done: queue.Queue.task_done lowers unfinished_tasks, and
\* raises ValueError when that would take it below zero.
TaskDone(c) ==
    /\ consumers[c].at \in {"idle", "working"}
    /\ IF unfinished_tasks - 1 < 0
       THEN /\ lastQ' = QResult("ack", c, TRUE, FALSE, NoneVal, <<>>)
            /\ UNCHANGED unfinished_tasks
       ELSE /\ lastQ' = QResult("ack", c, FALSE, FALSE, NoneVal, <<>>)
            /\ unfinished_tasks' = unfinished_tasks - 1
    /\ consumers' = [consumers EXCEPT ![c] = Idle]
    /\ UNCHANGED <<queue, pushLog, popLog, drawn>>

\* A consumer dies between pop_task and task_done; a new one takes its place.
Crash(c) ==
    /\ consumers[c].at = "working"
    /\ consumers' = [consumers EXCEPT ![c] = Idle]
    /\ lastQ' = QResult("crash", c, FALSE, FALSE, NoneVal, <<>>)
    /\ UNCHANGED <<queue, pushLog, popLog, unfinished_tasks, drawn>>

QueueClock ==
    /\ Elapse(MaxClock)
    /\ lastQ' = QResult("clock", 0, FALSE, FALSE, NoneVal, <<>>)
    /\ UNCHANGED <<queue, pushLog, popLog, unfinished_tasks, drawn, consumers>>

\* ------------------------------------------------------ the public store
\* Keys, values and ttls handed to the store.
MaxKeys == 2
StoreKeys == 1..MaxKeys
MaxValue == 2
StoreValues == 1..MaxValue
MaxTtl == 1
StoreTtls == {NoneVal} \cup 0..MaxTtl

\* What lastStore keeps of a store call: the call, its key, whether it
\* returned None (get) or False (delete), the value it was given or returned
\* (for a cleanup pass the number of entries it reports cleaned), the ttl a
\* set was given, and whether a get found the entry expired.
StoreResult(name, key, none, value, ttl, evicted) ==
    [op |-> name, key |-> key, none |-> none, value |-> value, ttl |-> ttl,
     evicted |-> evicted]

\* The entry has an expire_at and the time t is past it.
Expired(entry, t) == entry.expire_at # NoneVal /\ t > entry.expire_at

\* The store without the keys of gone.
Without(store, gone) == [k \in DOMAIN store \ gone |-> store[k]]

\* set_public keeping the expire_at of an entry it overwrites.
SetPublicKeepsExpiry(key, value, ttl) ==
    LET expire_at == IF key \in DOMAIN public_store
                     THEN public_store[key].expire_at
                     ELSE IF ttl = NoneVal THEN NoneVal ELSE now + ttl
        entry == [value |-> value, expire_at |-> expire_at]
    IN /\ public_store' = [k \in DOMAIN public_store \cup {key} |->
              IF k = key THEN entry ELSE public_store[k]]
       /\ lastStore' = StoreResult("set", key, FALSE, value, ttl, FALSE)
       /\ UNCHANGED <<now, sweep_now>>

\* MemoryQueue.set_public
SetPublic(key, value, ttl) ==
    LET expire_at == IF ttl = NoneVal THEN NoneVal ELSE now + ttl
        entry == [value |-> value, expire_at |-> expire_at]
    IN /\ public_store' = [k \in DOMAIN public_store \cup {key} |->
              IF k = key THEN entry ELSE public_store[k]]
       /\ lastStore' = StoreResult("set", key, FALSE, value, ttl, FALSE)
       /\ UNCHANGED <<now, sweep_now>>

\* GetPublic reading an entry without expire_at as expired.
GetPublicNullExpires(key) ==
    /\ IF key \notin DOMAIN public_store
       THEN /\ lastStore' = StoreResult("get", key, TRUE, NoneVal, NoneVal, FALSE)
            /\ UNCHANGED public_store
       ELSE IF \/ public_store[key].expire_at = NoneVal
               \/ now > public_store[key].expire_at
            THEN /\ public_store' = Without(public_store, {key})
                 /\ lastStore' = StoreResult("get", key, TRUE, NoneVal, NoneVal, TRUE)
            ELSE /\ lastStore' = StoreResult("get", key, FALSE, public_store[key].value, NoneVal, FALSE)
                 /\ UNCHANGED public_store
    /\ UNCHANGED <<now, sweep_now>>

\* GetPublic keeping the expired entry it reports as absent.
GetPublicKeepsExpired(key) ==
    /\ IF key \notin DOMAIN public_store
       THEN lastStore' = StoreResult("get", key, TRUE, NoneVal, NoneVal, FALSE)
       ELSE IF Expired(public_store[key], now)
            THEN lastStore' = StoreResult("get", key, TRUE, NoneVal, NoneVal, TRUE)
            ELSE lastStore' = StoreResult("get", key, FALSE, public_store[key].value, NoneVal, FALSE)
    /\ UNCHANGED <<public_store, now, sweep_now>>

\* MemoryQueue.get_public: lazy eviction under the store lock.
GetPublic(key) ==
    /\ IF key \notin DOMAIN public_store
       THEN /\ lastStore' = StoreResult("get", key, TRUE, NoneVal, NoneVal, FALSE)
            /\ UNCHANGED public_store
       ELSE IF Expired(public_store[key], now)
            THEN /\ public_store' = Without(public_store, {key})
                 /\ lastStore' = StoreResult("get", key, TRUE, NoneVal, NoneVal, TRUE)
            ELSE /\ lastStore' = StoreResult("get", key, FALSE, public_store[key].value, NoneVal, FALSE)
                 /\ UNCHANGED public_store
    /\ UNCHANGED <<now, sweep_now>>

\* MemoryQueue.delete_public
DeletePublic(key) ==
    /\ IF key \in DOMAIN public_store
       THEN /\ public_store' = Without(public_store, {key})
            /\ lastStore' = StoreResult("delete", key, FALSE, NoneVal, NoneVal, FALSE)
       ELSE /\ lastStore' = StoreResult("delete", key, TRUE, NoneVal, NoneVal, FALSE)
            /\ UNCHANGED public_store
    /\ UNCHANGED <<now, sweep_now>>

\* The cleanup pass reading the clock once, when its thread starts.
CleanupBeginStale ==
    /\ sweep_now = NoneVal
    /\ sweep_now' = StartTime
    /\ lastStore' = StoreResult("sweep_begin", 0, FALSE, NoneVal, NoneVal, FALSE)
    /\ UNCHANGED <<now, public_store>>

\* MemoryQueue.cleanup, first statement: the pass reads the clock before it
\* takes the store lock.
CleanupBegin ==
    /\ sweep_now = NoneVal
    /\ sweep_now' = now
    /\ lastStore' = StoreResult("sweep_begin", 0, FALSE, NoneVal, NoneVal, FALSE)
    /\ UNCHANGED <<now, public_store>>

\* CleanupSweep removing every entry whose expire_at is not ahead of the pass.
CleanupSweepEager ==
    /\ sweep_now # NoneVal
    /\ public_store' = Without(public_store,
          {k \in DOMAIN public_store :
              /\ public_store[k].expire_at # NoneVal
              /\ sweep_now >= public_store[k].expire_at})
    /\ sweep_now' = NoneVal
    /\ lastStore' = StoreResult("sweep", 0, FALSE,
          Cardinality({k \in DOMAIN public_store :
                          /\ public_store[k].expire_at # NoneVal
                          /\ sweep_now >= public_store[k].expire_at}),
          NoneVal, FALSE)
    /\ UNCHANGED now

\* MemoryQueue.cleanup under the store lock: the entries expired at the
\* time the pass read are collected and deleted.
CleanupSweep ==
    /\ sweep_now # NoneVal
    /\ public_store' = Without(public_store,
          {k \in DOMAIN public_store : Expired(public_store[k], sweep_now)})
    /\ sweep_now' = NoneVal
    /\ lastStore' = StoreResult("sweep", 0, FALSE,
          Cardinality({k \in DOMAIN public_store :
                          Expired(public_store[k], sweep_now)}), NoneVal, FALSE)
    /\ UNCHANGED now

\* MemoryQueue.clear_store
ClearStore ==
    /\ public_store # <<>>
    /\ public_store' = <<>>
    /\ lastStore' = StoreResult("clear", 0, FALSE, NoneVal, NoneVal, FALSE)
    /\ UNCHANGED <<now, sweep_now>>

StoreClock ==
    /\ Elapse(MaxClock)
    /\ lastStore' = StoreResult("clock", 0, FALSE, NoneVal, NoneVal, FALSE)
    /\ UNCHANGED <<public_store, sweep_now>>

\* ---------------------------------------------- the store lock, step by step
\* No entry: what a set_public on a new key overwrote.
NoEntry == [value |-> NoneVal, expire_at |-> NoneVal]

\* `with self._store_lock:` is entered when no other thread is inside.
StoreLockFree == store_lock = "free"

\* The callers' operations are one critical section each.
SetPublicLocked(key, value, ttl) ==
    /\ StoreLockFree
    /\ SetPublic(key, value, ttl)
    /\ replaced' = IF key \in DOMAIN public_store
                   THEN public_store[key] ELSE NoEntry
    /\ UNCHANGED <<store_lock, sweep_keys>>

GetPublicLocked(key) ==
    StoreLockFree /\ GetPublic(key) /\ UNCHANGED lockVars

DeletePublicLocked(key) ==
    StoreLockFree /\ DeletePublic(key) /\ UNCHANGED lockVars

ClearStoreLocked ==
    StoreLockFree /\ ClearStore /\ UNCHANGED lockVars

\* What lastStore keeps of a list_keys call: the keys it returned, and
\* their number as the value.
KeysResult(name, keys) ==
    [op |-> name, key |-> 0, none |-> FALSE, value |-> Cardinality(keys),
     ttl |-> NoneVal, evicted |-> FALSE, keys |-> keys]

\* list_keys evicting what has expired before it lists.
ListKeysEvicts ==
    /\ StoreLockFree
    /\ public_store' = Without(public_store,
          {k \in DOMAIN public_store : Expired(public_store[k], now)})
    /\ lastStore' = KeysResult("list_keys", DOMAIN public_store')
    /\ UNCHANGED <<now, sweep_now, lockVars>>

\* MemoryQueue.list_keys: the keys of the dict, whatever their expire_at.
ListKeys ==
    /\ StoreLockFree
    /\ lastStore' = KeysResult("list_keys", DOMAIN public_store)
    /\ UNCHANGED <<now, public_store, sweep_now, lockVars>>

\* MemoryQueue.get_store_size: len of the dict.
GetStoreSize ==
    /\ StoreLockFree
    /\ lastStore' = StoreResult("size", 0, FALSE,
                                Cardinality(DOMAIN public_store), NoneVal, FALSE)
    /\ UNCHANGED <<now, public_store, sweep_now, lockVars>>

\* MemoryQueue.cleanup, before the lock: the pass reads the clock.
CleanupRead ==
    CleanupBegin /\ UNCHANGED lockVars

\* expired_keys before the first loop of a pass has filled it.
NotCollected == {NoneVal}

\* The first loop of cleanup leaving the lock before the second runs.
CleanupCollectUnlocked ==
    /\ sweep_now # NoneVal /\ sweep_keys = NotCollected /\ StoreLockFree
    /\ sweep_keys' = {k \in DOMAIN public_store :
                         Expired(public_store[k], sweep_now)}
    /\ lastStore' = StoreResult("sweep_collect", 0, FALSE, NoneVal, NoneVal, FALSE)
    /\ UNCHANGED <<now, public_store, sweep_now, store_lock, replaced>>

\* MemoryQueue.cleanup, first loop under the lock: expired_keys is collected.
CleanupCollect ==
    /\ sweep_now # NoneVal /\ sweep_keys = NotCollected /\ StoreLockFree
    /\ store_lock' = "sweep"
    /\ sweep_keys' = {k \in DOMAIN public_store :
                         Expired(public_store[k], sweep_now)}
    /\ lastStore' = StoreResult("sweep_collect", 0, FALSE, NoneVal, NoneVal, FALSE)
    /\ UNCHANGED <<now, public_store, sweep_now, replaced>>

\* MemoryQueue.cleanup, second loop: del for every collected key, then the
\* lock is left and the pass is over. del of a key that is gone raises
\* KeyError, which ends the pass at that key.
CleanupRemove ==
    /\ sweep_keys # NotCollected
    /\ LET missing == sweep_keys \ DOMAIN public_store
           done == IF missing = {} THEN sweep_keys
                   ELSE {k \in sweep_keys : \A m \in missing : k < m}
       IN /\ public_store' = Without(public_store, done)
          /\ lastStore' = StoreResult(
                IF missing = {} THEN "sweep" ELSE "sweep_error", 0, FALSE,
                Cardinality(done), NoneVal, FALSE)
    /\ store_lock' = "free"
    /\ sweep_keys' = NotCollected
    /\ sweep_now' = NoneVal
    /\ UNCHANGED <<now, replaced>>

\* ------------------------------------------------ the management interface
\* What lastAdmin keeps of a management call: the call, the id it was given
\* or returned, whether it returned True (pause, resume, delete) or a task
\* (get), whether it raised, and the task or the ids handed back.
AdminResult(name, id, ok, raised, view) ==
    [op |-> name, id |-> id, ok |-> ok, raised |-> raised, view |-> view]

NoAdmin == AdminResult("none", 0, FALSE, FALSE, <<>>)

\* The arguments of add_scheduler_task calls at the management interface:
\* execute_at absent, 0 and ahead; the schedule's own field given and absent.
AdminAddInputs ==
    [schedule_type : {"once"}, params : {"empty"},
     interval_seconds : {NoneVal}, cron_expression : {<<>>},
     execute_at : {NoneVal, 0, now + 1}, max_runs : {0}]
    \cup
    [schedule_type : {"interval"}, params : {"object"},
     interval_seconds : {NoneVal, MaxInterval}, cron_expression : {<<>>},
     execute_at : {NoneVal}, max_runs : {0}]
    \cup
    [schedule_type : {"cron"}, params : {"object"},
     interval_seconds : {NoneVal}, cron_expression : {<<>>, FourFields},
     execute_at : {NoneVal}, max_runs : {0}]

\* No registry row changes; the step is no tick, pause or resume.
RegistryUntouched ==
    /\ lastOp' = Op("other", 0, FALSE, FALSE, {})
    /\ UNCHANGED <<now, tasks, task_queue, queue, dispatched, nextId>>

\* Scheduler.add_scheduler_task, with the id it returns.
AddTask(inp) ==
    /\ Add(inp)
    /\ lastAdmin' = AdminResult("add", nextId + 1, TRUE, FALSE, NewTask(inp, now))

\* PauseTask without the test for a missing row: the attribute is set on
\* None, which raises.
PauseTaskUnchecked(id) ==
    IF id \in DOMAIN tasks
    THEN Pause(id) /\ lastAdmin' = AdminResult("pause", id, TRUE, FALSE, <<>>)
    ELSE RegistryUntouched
         /\ lastAdmin' = AdminResult("pause", id, FALSE, TRUE, <<>>)

\* Scheduler.pause_task on any id.
PauseTask(id) ==
    IF id \in DOMAIN tasks
    THEN Pause(id) /\ lastAdmin' = AdminResult("pause", id, TRUE, FALSE, <<>>)
    ELSE RegistryUntouched
         /\ lastAdmin' = AdminResult("pause", id, FALSE, FALSE, <<>>)

\* Scheduler.resume_task on any id.
ResumeTask(id) ==
    IF id \in DOMAIN tasks
    THEN Resume(id) /\ lastAdmin' = AdminResult("resume", id, TRUE, FALSE, <<>>)
    ELSE RegistryUntouched
         /\ lastAdmin' = AdminResult("resume", id, FALSE, FALSE, <<>>)

\* Scheduler.delete_task on any id.
DeleteTask(id) ==
    IF id \in DOMAIN tasks
    THEN Delete(id) /\ lastAdmin' = AdminResult("delete", id, TRUE, FALSE, <<>>)
    ELSE RegistryUntouched
         /\ lastAdmin' = AdminResult("delete", id, FALSE, FALSE, <<>>)

\* Scheduler.get_task: None for an unknown id, else the row as a dict, its
\* params parsed; params that do not parse raise.
GetTask(id) ==
    /\ RegistryUntouched
    /\ lastAdmin' =
          IF id \notin DOMAIN tasks
          THEN AdminResult("get", id, FALSE, FALSE, <<>>)
          ELSE IF ~ParamsLoad(tasks[id].params)
               THEN AdminResult("get", id, FALSE, TRUE, <<>>)
               ELSE AdminResult("get", id, TRUE, FALSE,
                       [tasks[id] EXCEPT !.params = LoadParams(@)])

\* Scheduler.list_tasks: the ids of the rows listed.
ListTasks(enabled_only) ==
    /\ RegistryUntouched
    /\ lastAdmin' = AdminResult("list", 0, TRUE, FALSE,
          {id \in DOMAIN tasks : enabled_only => tasks[id].enabled = TRUE})

InitState ==
    /\ now = StartTime
    /\ tasks = <<>>
    /\ task_queue = {}
    /\ queue = <<>>
    /\ dispatched = [id \in TaskIds |-> 0]
    /\ nextId = 0
    /\ lastOp = Op("other", 0, FALSE, FALSE, {})
    /\ running = FALSE
    /\ worker = "none"
    /\ tick_running = TRUE
    /\ unfinished_tasks = 0
    /\ pushLog = <<>>
    /\ popLog = <<>>
    /\ consumers = [c \in Consumers |-> Idle]
    /\ drawn = 0
    /\ lastQ = QResult("none", 0, FALSE, FALSE, NoneVal, <<>>)
    /\ public_store = <<>>
    /\ sweep_now = NoneVal
    /\ lastStore = StoreResult("none", 0, FALSE, NoneVal, NoneVal, FALSE)
    /\ lastAdmin = NoAdmin
    /\ store_lock = "free"
    /\ sweep_keys = NotCollected
    /\ replaced = NoEntry
    /\ starters = [c \in Callers |-> "idle"]
    /\ thread_ref = 0
    /\ threads = <<>>
    /\ lastStart = NoStart
    /\ getters = [c \in Getters |-> Getter("idle", FALSE, 0)]
    /\ global_ref = 0
    /\ instances = 0
    /\ starts = [i \in Getters |-> 0]
    /\ global_lock = 0
    /\ session = NoSession
    /\ held = {}

Init ==
    /\ InitState
    /\ cron_in = NoCronCall
    /\ cron_out = NoCronResult

\* A _parse_cron_next_run call about to be made, on any of the inputs.
InitCron ==
    /\ InitState
    /\ cron_in \in CronCalls
    /\ cron_out = NoCronResult

\* What the scheduler's operations leave alone, and the queue's and the
\* store's.
SchedulerFrame == UNCHANGED <<loopVars, consumerVars, storeVars, adminVars, cronVars, sideVars>>
QueueFrame ==
    UNCHANGED <<now, tasks, task_queue, dispatched, nextId, lastOp, loopVars,
                storeVars, adminVars, cronVars, sideVars>>
StoreFrame ==
    UNCHANGED <<tasks, task_queue, queue, dispatched, nextId, lastOp,
                loopVars, consumerVars, adminVars, cronVars, sideVars>>

\* The scheduler's tick and its administrative operations, the tick called
\* directly.
Next ==
    \/ Tick /\ TickPut /\ UNCHANGED <<loopVars, storeVars, adminVars, cronVars, sideVars>>
    \/ (\E inp \in AddInputs : Add(inp)) /\ SchedulerFrame
    \/ (\E id \in TaskIds : Pause(id)) /\ SchedulerFrame
    \/ (\E id \in TaskIds : Resume(id)) /\ SchedulerFrame
    \/ (\E id \in TaskIds : Delete(id)) /\ SchedulerFrame
    \/ AdvanceTime /\ SchedulerFrame
    \/ (\E id \in TaskIds, column \in {"params", "max_runs"} :
           RegistryEdit(id, column)) /\ SchedulerFrame

Spec == Init /\ [][Next]_vars

\* Every tick's query is answered and every commit goes through.
NextCommitted ==
    \/ /\ \E order \in Orderings(DueTasks) : TickRuns(order, TRUE)
       /\ TickPut /\ UNCHANGED <<loopVars, storeVars, adminVars, cronVars, sideVars>>
    \/ (\E inp \in AddInputs : Add(inp)) /\ SchedulerFrame
    \/ (\E id \in TaskIds : Pause(id)) /\ SchedulerFrame
    \/ (\E id \in TaskIds : Resume(id)) /\ SchedulerFrame
    \/ (\E id \in TaskIds : Delete(id)) /\ SchedulerFrame
    \/ AdvanceTime /\ SchedulerFrame
    \/ (\E id \in TaskIds, column \in {"params", "max_runs"} :
           RegistryEdit(id, column)) /\ SchedulerFrame

SpecCommitted == Init /\ [][NextCommitted]_vars

\* The scheduler run by its worker thread: start, stop, the loop of
\* _scheduler_worker, tasks added and the clock moving.
NextLoop ==
    \/ Start
    \/ Stop
    \/ WorkerEnter
    \/ WorkerTick
    \/ WorkerTickEscapes
    \/ WorkerWake
    \/ WorkerExit
    \/ (\E inp \in AddInputs : Add(inp)) /\ SchedulerFrame
    \/ AdvanceTime /\ SchedulerFrame

SpecLoop == Init /\ [][NextLoop]_vars

\* The worker thread is scheduled and its calls return: a tick ends, a sleep
\* ends, the while test is made.
FairSpecLoop ==
    /\ SpecLoop
    /\ WF_vars(WorkerEnter)
    /\ WF_vars(WorkerTick \/ WorkerTickEscapes)
    /\ WF_vars(WorkerWake)
    /\ WF_vars(WorkerExit)

\* What start, stop and the loop threads leave alone.
StartFrame ==
    UNCHANGED <<worker, tick_running, storeVars, adminVars, cronVars, lockVars,
                singletonVars, raceVars>>

\* One Scheduler whose start() and stop() are called from several threads.
NextStart ==
    \/ (\E c \in Callers : StartCheck(c))
          /\ UNCHANGED <<schedVars, consumerVars>> /\ StartFrame
    \/ (\E c \in Callers : StartSpawn(c))
          /\ UNCHANGED <<schedVars, consumerVars>> /\ StartFrame
    \/ StopCall /\ UNCHANGED <<schedVars, consumerVars>> /\ StartFrame
    \/ (\E i \in 1..MaxThreads : ThreadEnter(i))
          /\ UNCHANGED <<schedVars, consumerVars>> /\ StartFrame
    \/ (\E i \in 1..MaxThreads : ThreadTick(i)) /\ StartFrame
    \/ (\E i \in 1..MaxThreads : ThreadTickEscapes(i)) /\ StartFrame
    \/ (\E i \in 1..MaxThreads : ThreadWake(i))
          /\ UNCHANGED <<schedVars, consumerVars>> /\ StartFrame
    \/ (\E i \in 1..MaxThreads : ThreadExit(i))
          /\ UNCHANGED <<schedVars, consumerVars>> /\ StartFrame

SpecStart == Init /\ [][NextStart]_vars

\* What the scheduler's operations leave alone when the tick is two steps.
RaceFrame ==
    UNCHANGED <<loopVars, consumerVars, storeVars, adminVars, cronVars,
                lockVars, startVars, singletonVars>>

\* The tick's query and its commit as two steps, administrative calls from
\* other threads in between.
NextRace ==
    \/ TickSelect /\ UNCHANGED held /\ RaceFrame
    \/ ~session.open /\ TickQueryFails /\ UNCHANGED raceVars /\ RaceFrame
    \/ /\ \E order \in Orderings(DOMAIN session.rows) : TickCommit(order, TRUE)
       /\ TickPut
       /\ UNCHANGED <<loopVars, storeVars, adminVars, cronVars, lockVars,
                      startVars, singletonVars>>
    \/ /\ \E order \in Orderings(DOMAIN session.rows) : TickCommit(order, FALSE)
       /\ TickPut
       /\ UNCHANGED <<loopVars, storeVars, adminVars, cronVars, lockVars,
                      startVars, singletonVars>>
    \/ (\E inp \in AddInputs : Add(inp)) /\ UNCHANGED raceVars /\ RaceFrame
    \/ /\ \E id \in TaskIds : Pause(id) /\ held' = held \cup {id}
       /\ UNCHANGED session /\ RaceFrame
    \/ /\ \E id \in TaskIds : Resume(id) /\ held' = held \ {id}
       /\ UNCHANGED session /\ RaceFrame
    \/ /\ \E id \in TaskIds : Delete(id) /\ held' = held \ {id}
       /\ UNCHANGED session /\ RaceFrame
    \/ AdvanceTime /\ UNCHANGED raceVars /\ RaceFrame

SpecRace == Init /\ [][NextRace]_vars

\* What get_scheduler leaves alone.
SingletonFrame ==
    UNCHANGED <<schedVars, loopVars, consumerVars, storeVars, adminVars,
                cronVars, lockVars, startVars, raceVars>>

\* Concurrent first calls of get_scheduler().
NextSingleton ==
    \/ (\E c \in Getters : GetFirstTest(c)) /\ SingletonFrame
    \/ (\E c \in Getters : GetAcquire(c)) /\ SingletonFrame
    \/ (\E c \in Getters : GetSecondTest(c)) /\ SingletonFrame
    \/ (\E c \in Getters : GetConstruct(c)) /\ SingletonFrame
    \/ (\E c \in Getters : GetStart(c)) /\ SingletonFrame
    \/ (\E c \in Getters : GetReturn(c)) /\ SingletonFrame

SpecSingleton == Init /\ [][NextSingleton]_vars

\* The dispatch queue between a producer and the consumers of the pool.
NextQueue ==
    \/ (\E task \in PushInputs : PushTask(task)) /\ QueueFrame
    \/ (\E c \in Consumers, timeout \in PopTimeouts : PopBegin(c, timeout))
          /\ QueueFrame
    \/ (\E c \in Consumers : PopTake(c)) /\ QueueFrame
    \/ (\E c \in Consumers : PopEmpty(c)) /\ QueueFrame
    \/ (\E c \in Consumers : TaskDone(c)) /\ QueueFrame
    \/ (\E c \in Consumers : Crash(c)) /\ QueueFrame
    \/ QueueClock /\ UNCHANGED <<tasks, task_queue, dispatched, nextId, lastOp,
                                 loopVars, storeVars, adminVars, cronVars, sideVars>>

SpecQueue == Init /\ [][NextQueue]_vars

\* The public store, its callers and the cleanup thread.
NextStore ==
    \/ (\E key \in StoreKeys, value \in StoreValues, ttl \in StoreTtls :
           SetPublic(key, value, ttl)) /\ StoreFrame
    \/ (\E key \in StoreKeys : GetPublic(key)) /\ StoreFrame
    \/ (\E key \in StoreKeys : DeletePublic(key)) /\ StoreFrame
    \/ CleanupBegin /\ StoreFrame
    \/ CleanupSweep /\ StoreFrame
    \/ ClearStore /\ StoreFrame
    \/ StoreClock /\ StoreFrame

SpecStore == Init /\ [][NextStore]_vars

\* What the store's locked operations leave alone.
LockFrame ==
    UNCHANGED <<tasks, task_queue, queue, dispatched, nextId, lastOp,
                loopVars, consumerVars, adminVars, cronVars, startVars,
                singletonVars, raceVars>>

\* The public store with its lock: the callers' critical sections and the
\* cleanup pass, whose two loops are steps of their own.
NextLock ==
    \/ (\E key \in StoreKeys, value \in StoreValues, ttl \in StoreTtls :
           SetPublicLocked(key, value, ttl)) /\ LockFrame
    \/ (\E key \in StoreKeys : GetPublicLocked(key)) /\ LockFrame
    \/ (\E key \in StoreKeys : DeletePublicLocked(key)) /\ LockFrame
    \/ ClearStoreLocked /\ LockFrame
    \/ ListKeys /\ LockFrame
    \/ GetStoreSize /\ LockFrame
    \/ CleanupRead /\ LockFrame
    \/ CleanupCollect /\ LockFrame
    \/ CleanupRemove /\ LockFrame
    \/ StoreClock /\ UNCHANGED lockVars /\ LockFrame

SpecLock == Init /\ [][NextLock]_vars

\* The cleanup thread is scheduled: its sleep ends and its pass goes on.
FairSpecLock ==
    /\ SpecLock
    /\ WF_vars(CleanupRead /\ LockFrame)
    /\ WF_vars(CleanupCollect /\ LockFrame)
    /\ WF_vars(CleanupRemove /\ LockFrame)

\* The management interface beside the tick: add, pause, resume, delete, get
\* and list on any id, the tick and the clock.
\* The call of _parse_cron_next_run returns.
ParseCronCall ==
    /\ ~cron_out.returned
    /\ cron_out' = ParseCronOutcome(cron_in.cron_expr, cron_in.now)
    /\ UNCHANGED cron_in

CronAddInputs == {inp \in AddInputs : inp.schedule_type = "cron"}

\* The schedule calculator on its own, and ticks over Cron tasks.
NextCron ==
    \/ ParseCronCall
       /\ UNCHANGED <<schedVars, loopVars, consumerVars, storeVars, adminVars,
                       sideVars>>
    \/ (\E inp \in CronAddInputs : Add(inp)) /\ SchedulerFrame
    \/ Tick /\ TickPut /\ UNCHANGED <<loopVars, storeVars, adminVars, cronVars, sideVars>>
    \/ AdvanceTime /\ SchedulerFrame

SpecCron == InitCron /\ [][NextCron]_vars

AdminFrame == UNCHANGED <<loopVars, consumerVars, storeVars, cronVars, sideVars>>

NextAdmin ==
    \/ (\E inp \in AdminAddInputs : AddTask(inp)) /\ AdminFrame
    \/ (\E id \in TaskIds : PauseTask(id)) /\ AdminFrame
    \/ (\E id \in TaskIds : ResumeTask(id)) /\ AdminFrame
    \/ (\E id \in TaskIds : DeleteTask(id)) /\ AdminFrame
    \/ (\E id \in TaskIds : GetTask(id)) /\ AdminFrame
    \/ (\E enabled_only \in BOOLEAN : ListTasks(enabled_only)) /\ AdminFrame
    \/ Tick /\ TickPut /\ lastAdmin' = NoAdmin
          /\ UNCHANGED <<loopVars, storeVars, cronVars, sideVars>>
    \/ AdvanceTime /\ lastAdmin' = NoAdmin /\ AdminFrame

SpecAdmin == Init /\ [][NextAdmin]_vars

\* ------------------------------------------------------------- properties
\* The step is a tick whose due-task query was answered.
TickStep == lastOp'.op = "tick" /\ lastOp'.queried

\* WorkItems in the queue whose source is scheduler task id.
ItemsOf(q, id) == Cardinality({i \in DOMAIN q : q[i].scheduler_task_id = id})

\* Handling the row raises: unparsable params, or a NULL max_runs compared.
Raises(task) ==
    \/ task.params = "garbage"
    \/ task.schedule_type # "once" /\ task.max_runs = NoneVal

\* C1: a Once task is dispatched exactly once: however many ticks occur, no
\* more than one WorkItem is ever pushed for it.
C1_OnceDispatchedOnce ==
    \A id \in DOMAIN tasks :
        tasks[id].schedule_type = "once" => dispatched[id] <= 1

\* C2: for a task with max_runs = N > 0 the number of WorkItems pushed never
\* exceeds N, over any sequence of ticks, pauses and resumes.
C2_AtMostMaxRuns ==
    \A id \in DOMAIN tasks :
        tasks[id].max_runs > 0 => dispatched[id] <= tasks[id].max_runs

\* C3: in every reachable state a task's committed run_count equals the
\* number of WorkItems pushed for it, whether the ticks' commits succeeded
\* or failed.
C3_RunCountIsDispatched ==
    \A id \in DOMAIN tasks : tasks[id].run_count = dispatched[id]

\* C4: absent a per-task failure, a tick at time now pushes exactly one
\* WorkItem for each task that is enabled with a non-null next_run_at <= now
\* when the tick queries the registry, and none for any other task.
C4_TickPushesExactlyDue ==
    [][TickStep =>
        /\ \A id \in DOMAIN tasks :
              ~Raises(tasks[id]) =>
                LET due == /\ tasks[id].enabled = TRUE
                           /\ tasks[id].next_run_at # NoneVal
                           /\ tasks[id].next_run_at <= now
                    n == IF due THEN 1 ELSE 0
                IN /\ dispatched'[id] = dispatched[id] + n
                   /\ ItemsOf(queue', id) = ItemsOf(queue, id) + n
        /\ \A id \in TaskIds \ DOMAIN tasks :
              /\ dispatched'[id] = dispatched[id]
              /\ ItemsOf(queue', id) = ItemsOf(queue, id)
        /\ SubSeq(queue', 1, Len(queue)) = queue]_vars

\* C4 witness: a tick has just pushed for one task that was due and passed
\* over another whose next_run_at lies ahead.
C4_Witness ==
    /\ lastOp.op = "tick" /\ lastOp.queried /\ lastOp.committed
    /\ \E a, b \in DOMAIN tasks :
          /\ a \in lastOp.pushed /\ b \notin lastOp.pushed
          /\ tasks[b].enabled /\ tasks[b].next_run_at > now
          /\ dispatched[b] = 0

\* C5: each dispatch of an Interval task at tick time now sets last_run_at =
\* now and next_run_at = now + interval_seconds, and run_count equals the
\* number of dispatches.
C5_IntervalDispatch ==
    \A id \in DOMAIN tasks :
        (/\ tasks[id].schedule_type = "interval"
         /\ tasks[id].interval_seconds # NoneVal
         /\ dispatched[id] >= 1) =>
            /\ tasks[id].run_count = dispatched[id]
            /\ tasks[id].last_run_at # NoneVal
            /\ tasks[id].next_run_at
                  = tasks[id].last_run_at + tasks[id].interval_seconds

\* The claims' reading of "due when the tick queries the registry".
QueryMatches(task, t) ==
    task.enabled = TRUE /\ task.next_run_at # NoneVal /\ task.next_run_at <= t

Exhausted(task) ==
    \/ task.schedule_type = "once" /\ task.run_count >= 1
    \/ task.max_runs > 0 /\ task.run_count >= task.max_runs

\* C7 as claimed: in every state reachable through add, tick, pause and
\* resume, a Once task that has fired, or a task with run_count >= max_runs
\* > 0, has enabled = false.
C7_ExhaustedIsDisabled ==
    \A id \in DOMAIN tasks : Exhausted(tasks[id]) => tasks[id].enabled = FALSE

\* C7 as amended: a dispatch that leaves the task a fired Once task or with
\* run_count >= max_runs > 0 leaves it disabled, and such a task is enabled
\* only by resume(id): no other step makes a task both exhausted and enabled.
C7_ExhaustedEnabledOnlyByResume ==
    [][\A id \in DOMAIN tasks' :
          /\ (TickStep /\ id \in lastOp'.pushed /\ lastOp'.committed
                /\ Exhausted(tasks'[id])) => tasks'[id].enabled = FALSE
          /\ (Exhausted(tasks'[id]) /\ tasks'[id].enabled = TRUE) =>
                \/ lastOp'.op = "resume" /\ lastOp'.id = id
                \/ /\ id \in DOMAIN tasks
                   /\ Exhausted(tasks[id]) /\ tasks[id].enabled = TRUE
                   /\ ~(TickStep /\ id \in lastOp'.pushed /\ lastOp'.committed)]_vars

\* C7 witness: a tick has just dispatched a task for the max_runs-th time and
\* left it disabled, while another exhausted task is enabled after a resume.
C7_Witness ==
    /\ lastOp.op = "tick" /\ lastOp.queried /\ lastOp.committed
    /\ \E a, b \in DOMAIN tasks :
          /\ a \in lastOp.pushed
          /\ tasks[a].max_runs > 0 /\ tasks[a].run_count = tasks[a].max_runs
          /\ tasks[a].enabled = FALSE
          /\ Exhausted(tasks[b]) /\ tasks[b].enabled = TRUE

\* C8: next_run_at is null exactly for a Once task that has fired or a Cron
\* task whose expression gave no next time; every Interval task and every
\* newly added task has a non-null next_run_at.
C8_NextRunNullIffSpent ==
    \A id \in DOMAIN tasks :
        /\ tasks[id].next_run_at = NoneVal =>
              \/ tasks[id].schedule_type = "once" /\ tasks[id].run_count >= 1
              \/ tasks[id].schedule_type = "cron" /\ tasks[id].run_count >= 1
        /\ (tasks[id].schedule_type = "once" /\ tasks[id].run_count >= 1) =>
              tasks[id].next_run_at = NoneVal
        /\ tasks[id].schedule_type = "interval" =>
              tasks[id].next_run_at # NoneVal
        /\ tasks[id].run_count = 0 => tasks[id].next_run_at # NoneVal

\* C9: when handling a due task fails at any point in a tick, the task's
\* run_count, last_run_at, next_run_at and enabled are what they were before
\* the tick, so that it is still due.
C9_FailureLeavesTaskUnchanged ==
    [][TickStep =>
        \A id \in DOMAIN tasks :
           (QueryMatches(tasks[id], now) /\ Raises(tasks[id])) =>
              /\ tasks'[id].run_count = tasks[id].run_count
              /\ tasks'[id].last_run_at = tasks[id].last_run_at
              /\ tasks'[id].next_run_at = tasks[id].next_run_at
              /\ tasks'[id].enabled = tasks[id].enabled
              /\ QueryMatches(tasks'[id], now)]_vars

\* C10: when handling one due task fails in a tick, every other due task is
\* still dispatched in that tick and updated as without the failure, and the
\* tick's commit stores those updates.
C10_OthersUnaffected ==
    [][TickStep =>
        ((\E f \in DOMAIN tasks : QueryMatches(tasks[f], now) /\ Raises(tasks[f]))
         => \A id \in DOMAIN tasks :
              (QueryMatches(tasks[id], now) /\ ~Raises(tasks[id])) =>
                 /\ dispatched'[id] = dispatched[id] + 1
                 /\ ItemsOf(queue', id) = ItemsOf(queue, id) + 1
                 /\ lastOp'.committed =>
                       /\ tasks'[id] = ExecuteTask(tasks[id], now).task
                       /\ tasks'[id].run_count = tasks[id].run_count + 1
                       /\ tasks'[id].last_run_at = now
                 /\ ~lastOp'.committed => tasks'[id] = tasks[id])]_vars

\* C10 witness: a committed tick has just pushed for one task while another,
\* due with unparsable params, was caught and skipped.
C10_Witness ==
    /\ lastOp.op = "tick" /\ lastOp.queried /\ lastOp.committed
    /\ \E f, a \in DOMAIN tasks :
          /\ QueryMatches(tasks[f], now) /\ tasks[f].params = "garbage"
          /\ f \notin lastOp.pushed
          /\ a \in lastOp.pushed /\ tasks[a].last_run_at = now

\* C11: when the registry is unreachable during a tick (the due-task query or
\* the final commit raises) no row and no audit record of that tick is
\* stored, so the registry is what it was before the tick; otherwise every
\* change of the tick is stored by the one commit.
C11_TickAllOrNothing ==
    [][lastOp'.op = "tick" /\ lastOp' # lastOp =>
        IF lastOp'.queried /\ lastOp'.committed
        THEN /\ DOMAIN tasks' = DOMAIN tasks
             /\ \A id \in DOMAIN tasks :
                   tasks'[id] = IF QueryMatches(tasks[id], now)
                                THEN ExecuteTask(tasks[id], now).task
                                ELSE tasks[id]
             /\ task_queue \subseteq task_queue'
             /\ {r.scheduler_task_id : r \in task_queue' \ task_queue}
                   = lastOp'.pushed
             /\ Cardinality(task_queue' \ task_queue)
                   = Cardinality(lastOp'.pushed)
        ELSE tasks' = tasks /\ task_queue' = task_queue]_vars

\* C11 witness: a tick whose commit raised has just pushed for a task and
\* left its row as it was, run_count behind the pushes.
C11_Witness ==
    /\ lastOp.op = "tick" /\ lastOp.queried /\ ~lastOp.committed
    /\ \E id \in lastOp.pushed :
          /\ id \in DOMAIN tasks
          /\ tasks[id].run_count < dispatched[id]
          /\ tasks[id].enabled /\ tasks[id].next_run_at <= now
    /\ task_queue = {}

\* The step is one pass of the worker's loop body.
WorkerPass == worker = "ticking" /\ worker' # "ticking"

\* C12: when a tick fails because the registry is unreachable, the worker
\* thread does not end: it takes the 5-second backoff sleep, not the
\* check-interval sleep, and then runs another tick while running is true.
C12_FailedTickBacksOff ==
    [][(WorkerPass /\ ~(lastOp'.queried /\ lastOp'.committed)) =>
            worker' = "backoff"]_vars

\* The items pop_task calls have returned, in the order they were taken.
Popped == [i \in 1..Len(popLog) |-> popLog[i].item]

\* C13: with one producer and any number of concurrent consumers, each
\* pushed item is returned by at most one pop call, and an item popped and
\* never acked (its consumer crashed) is never returned by a later pop: the
\* items popped so far followed by the items still queued are the items
\* pushed, each once.
C13_AtMostOnce ==
    /\ Popped \o queue = pushLog
    /\ Len(popLog) + Len(queue) = Len(pushLog)

\* C13 witness: two consumers took one item each, no ack was ever given, both
\* crashed and wait in pop again on the empty queue.
C13_Witness ==
    /\ Len(popLog) = 2 /\ popLog[1].by # popLog[2].by
    /\ unfinished_tasks = 2 /\ queue = <<>>
    /\ \A c \in Consumers : consumers[c].at = "waiting"

\* C14: with a single consumer, whatever the interleaving of pushes and
\* pops, the items pop has returned are a prefix of the items pushed, in
\* push order.
C14_SingleConsumerFifo ==
    \A c \in Consumers :
        (\A i \in DOMAIN popLog : popLog[i].by = c) =>
            /\ Len(popLog) <= Len(pushLog)
            /\ Popped = SubSeq(pushLog, 1, Len(popLog))

\* C14 witness: two different items were pushed and one consumer has popped
\* both.
C14_Witness ==
    /\ Len(pushLog) = 2 /\ pushLog[1] # pushLog[2]
    /\ Len(popLog) = 2 /\ popLog[1].by = popLog[2].by
    /\ queue = <<>>

\* The step is a push_task call that returned or raised.
PushStep == lastQ'.op = "push"

\* What a push that succeeds does: the item, with the id the call returns,
\* joins the tail; a supplied id is kept, a missing one is new.
PushAppends ==
    LET task == lastQ'.item
        item == queue'[Len(queue')]
    IN /\ ~lastQ'.raised
       /\ Len(queue') = Len(queue) + 1
       /\ SubSeq(queue', 1, Len(queue)) = queue
       /\ item.task_id = lastQ'.id
       /\ \A k \in DOMAIN task : item[k] = task[k]
       /\ DOMAIN item = DOMAIN task \cup {"task_id"}
       /\ "task_id" \notin DOMAIN task =>
              \A i \in DOMAIN pushLog : pushLog[i].task_id # lastQ'.id

\* C15 as claimed: push(item) succeeds for every item: it gives the item a
\* fresh id when it has none, keeps a supplied id, appends the item at the
\* tail (size grows by 1) and returns the id.
C15_PushAlwaysSucceeds == [][PushStep => PushAppends]_vars

\* C15 as amended: push(item) does so for every item that has a type; an
\* item without a type is refused with ValueError and the queue is left as
\* it was.
C15_PushSucceedsWithType ==
    [][PushStep =>
         IF "type" \in DOMAIN lastQ'.item
         THEN PushAppends
         ELSE /\ lastQ'.raised
              /\ queue' = queue /\ pushLog' = pushLog
              /\ unfinished_tasks' = unfinished_tasks]_vars

\* C15 witness: an item with a supplied id is in the queue under that id, and
\* a push of an item without id has just put it behind with a drawn id.
C15_Witness ==
    /\ lastQ.op = "push" /\ ~lastQ.raised
    /\ "task_id" \notin DOMAIN lastQ.item
    /\ Len(queue) = 2
    /\ queue[1].task_id = SuppliedId
    /\ queue[2].task_id = lastQ.id /\ lastQ.id # SuppliedId

\* C16: pop(timeout) on a queue that stays empty returns none once the
\* timeout has elapsed, without raising and without altering the queue; pop
\* without timeout returns only with an item.
C16_PopTimesOutOrBlocks ==
    [][lastQ'.op = "pop" =>
         /\ ~lastQ'.raised
         /\ lastQ'.none =>
               /\ queue = <<>> /\ queue' = queue
               /\ consumers[lastQ'.by].deadline # NoneVal
               /\ now >= consumers[lastQ'.by].deadline
         /\ (consumers[lastQ'.by].at = "waiting"
               /\ consumers[lastQ'.by].deadline = NoneVal) => ~lastQ'.none]_vars

\* C17: ack() only lowers the in-flight counter: it never changes what is in
\* the queue, its order or its size, and no item is handed out again because
\* of it.
C17_AckOnlyCounts ==
    [][lastQ'.op = "ack" =>
         /\ queue' = queue
         /\ pushLog' = pushLog /\ popLog' = popLog
         /\ lastQ'.raised <=> unfinished_tasks = 0
         /\ unfinished_tasks' = IF lastQ'.raised THEN unfinished_tasks
                                ELSE unfinished_tasks - 1]_vars

\* C17 witness: a consumer has just acked the item it popped while another
\* item waits in the queue: the counter is down to 1 and the queue as it was.
C17_Witness ==
    /\ lastQ.op = "ack" /\ ~lastQ.raised
    /\ Len(popLog) = 1 /\ popLog[1].by = lastQ.by
    /\ Len(queue) = 1 /\ queue[1] = pushLog[2]
    /\ unfinished_tasks = 1

\* C18: get(k) returns none when k is absent; when k is there and its
\* expire_at has passed it deletes the entry and returns none; otherwise it
\* returns the value of the latest set(k, .) and leaves the store as it is.
\* The value under a key is the one the latest set on the key stored: a set
\* stores its value, and nothing else changes an entry that stays.
C18_GetSemantics ==
    [][/\ lastStore'.op = "get" =>
            LET k == lastStore'.key IN
            IF k \notin DOMAIN public_store
            THEN lastStore'.none /\ public_store' = public_store
            ELSE IF /\ public_store[k].expire_at # NoneVal
                    /\ now > public_store[k].expire_at
                 THEN /\ lastStore'.none
                      /\ DOMAIN public_store' = DOMAIN public_store \ {k}
                      /\ \A j \in DOMAIN public_store' :
                            public_store'[j] = public_store[j]
                 ELSE /\ ~lastStore'.none
                      /\ lastStore'.value = public_store[k].value
                      /\ public_store' = public_store
       /\ lastStore'.op = "set" =>
            /\ lastStore'.key \in DOMAIN public_store'
            /\ public_store'[lastStore'.key].value = lastStore'.value
       /\ \A k \in DOMAIN public_store \cap DOMAIN public_store' :
            public_store'[k] # public_store[k] =>
                lastStore'.op = "set" /\ lastStore'.key = k]_vars

\* C18 witness: two seconds after the first sets, a get has just found its
\* entry expired and removed it, while the other key's entry, which expires
\* only now, is still there.
C18_Witness ==
    /\ lastStore.op = "get" /\ lastStore.none /\ lastStore.evicted
    /\ now = StartTime + 2
    /\ lastStore.key \notin DOMAIN public_store
    /\ \E k \in DOMAIN public_store : public_store[k].expire_at = now

\* C19: an entry stored by set(k, v) without ttl has expire_at = null and is
\* removed neither by get nor by a sweep pass: it stays as it is, and get(k)
\* returns v, until delete(k), clear() or another set on k.
C19_NoTtlNeverExpires ==
    [][/\ (lastStore'.op = "set" /\ lastStore'.ttl = NoneVal) =>
            public_store'[lastStore'.key]
               = [value |-> lastStore'.value, expire_at |-> NoneVal]
       /\ \A k \in DOMAIN public_store :
            public_store[k].expire_at = NoneVal =>
               /\ \/ k \in DOMAIN public_store'
                        /\ public_store'[k] = public_store[k]
                  \/ lastStore'.op \in {"delete", "set"} /\ lastStore'.key = k
                  \/ lastStore'.op = "clear"
               /\ (lastStore'.op = "get" /\ lastStore'.key = k) =>
                     /\ ~lastStore'.none
                     /\ lastStore'.value = public_store[k].value]_vars

\* C19 witness: at the end of the clock a get has just returned the value of
\* an entry without expire_at, after the time of every ttl has passed.
C19_Witness ==
    /\ lastStore.op = "get" /\ ~lastStore.none
    /\ now = MaxClock /\ now > StartTime + MaxTtl
    /\ lastStore.key \in DOMAIN public_store
    /\ public_store[lastStore.key].expire_at = NoneVal
    /\ public_store[lastStore.key].value = lastStore.value

\* C20: one sweep pass removes exactly the entries whose expire_at had passed
\* at the time the pass read the clock, read or not, and leaves every other
\* entry (no ttl, or not yet expired) with its value and expire_at.
C20_SweepRemovesExpired ==
    [][lastStore'.op = "sweep" =>
         /\ DOMAIN public_store' =
               {k \in DOMAIN public_store :
                   \/ public_store[k].expire_at = NoneVal
                   \/ public_store[k].expire_at >= sweep_now}
         /\ \A k \in DOMAIN public_store' :
               public_store'[k] = public_store[k]]_vars

\* C20 witness: a sweep pass has just removed one entry and left one whose
\* expire_at is the time of the pass.
C20_Witness ==
    /\ lastStore.op = "sweep" /\ lastStore.value = 1
    /\ \E k \in DOMAIN public_store : public_store[k].expire_at = now

\* The step is a management call of the given name that returned.
AdminStep(name) == lastAdmin'.op = name

\* C21: add returns a fresh id and creates a task with enabled = true,
\* run_count = 0 and next_run_at = execute_at whenever one is given, whatever
\* the timestamp, otherwise the current time; a task added without
\* execute_at is dispatched by the very next tick.
C21_AddCreatesDueTask ==
    [][/\ AdminStep("add") =>
            LET id == lastAdmin'.id IN
            /\ id \notin 1..nextId
            /\ DOMAIN tasks' = DOMAIN tasks \cup {id}
            /\ \A other \in DOMAIN tasks : tasks'[other] = tasks[other]
            /\ tasks'[id].enabled = TRUE
            /\ tasks'[id].run_count = 0
            /\ tasks'[id].next_run_at =
                  IF tasks'[id].execute_at # NoneVal
                  THEN tasks'[id].execute_at ELSE now
       /\ TickStep =>
            \A id \in DOMAIN tasks :
               (/\ tasks[id].execute_at = NoneVal /\ tasks[id].enabled = TRUE
                /\ dispatched[id] = 0 /\ tasks[id].last_run_at = NoneVal)
               => dispatched'[id] = 1]_vars

\* C22: add fails with a validation error and creates no task when the
\* schedule is Interval and interval_seconds is absent, or Cron and
\* cron_expression is absent: no such task is ever in the registry.
C22_AddValidates ==
    \A id \in DOMAIN tasks :
        /\ tasks[id].schedule_type = "interval" =>
              tasks[id].interval_seconds # NoneVal
        /\ tasks[id].schedule_type = "cron" =>
              tasks[id].cron_expression # <<>>

\* C23: pause, resume and delete on an id that is not in the registry return
\* false and get returns none, without raising and without changing any task.
C23_UnknownIdNotFound ==
    [][(/\ lastAdmin'.op \in {"pause", "resume", "delete", "get"}
        /\ lastAdmin'.id \notin DOMAIN tasks) =>
            /\ ~lastAdmin'.ok /\ ~lastAdmin'.raised
            /\ lastAdmin'.view = <<>>
            /\ tasks' = tasks /\ task_queue' = task_queue]_vars

\* C23 witness: a pause of an id that was never added has just returned
\* false, with a task in the registry, enabled as before.
C23_Witness ==
    /\ lastAdmin.op = "pause" /\ ~lastAdmin.ok
    /\ lastAdmin.id > nextId
    /\ \E id \in DOMAIN tasks : tasks[id].enabled = TRUE

Deleted == {id \in 1..nextId : id \notin DOMAIN tasks}

\* C25: after delete(id) has returned success the task is gone for good:
\* get(id) returns none, list omits it, pause(id) and resume(id) return
\* false, and no later tick pushes a WorkItem for id.
C25_DeleteIsFinal ==
    [][/\ (AdminStep("delete") /\ lastAdmin'.ok) =>
            lastAdmin'.id \notin DOMAIN tasks'
       /\ \A id \in Deleted :
            /\ id \notin DOMAIN tasks'
            /\ dispatched'[id] = dispatched[id]
            /\ ItemsOf(queue', id) = ItemsOf(queue, id)
            /\ (lastAdmin'.op \in {"get", "pause", "resume"}
                  /\ lastAdmin'.id = id) => ~lastAdmin'.ok
            /\ AdminStep("list") => id \notin lastAdmin'.view]_vars

\* C25 witness: a committed tick has just pushed for a task while another,
\* dispatched once before it was deleted, got nothing.
C25_Witness ==
    /\ lastOp.op = "tick" /\ lastOp.committed /\ lastOp.pushed # {}
    /\ \E id \in Deleted : dispatched[id] = 1

\* The start of the hour that follows t, counted without the calendar.
FollowingHour(t) ==
    ((t + TzOffset) \div SecondsPerHour + 1) * SecondsPerHour - TzOffset

FieldCount(cron_expr) == Len(Split(cron_expr))

\* C26: for every time now, the next run of a Cron task whose minute field is
\* `0` and hour field is `*` is the start of the hour following now, in every
\* hour of the day; in the last hour it is 00:00:00 of the next day.
C26_HourlyIsFollowingHour ==
    (cron_out.returned /\ cron_in.cron_expr = Hourly) =>
        cron_out.value = FollowingHour(cron_in.now)

\* C27: for every time now and every positive N, a five-field expression
\* whose minute field is `*/N` yields now + N*60 seconds, whatever the other
\* four fields contain.
C27_StepIsNMinutes ==
    (cron_out.returned /\ cron_in.minutes > 0) =>
        /\ cron_in.cron_expr \in
              {StepExpression(cron_in.minutes, rest) :
                  rest \in {AllStars, OtherFields}}
        /\ cron_out.value = cron_in.now + cron_in.minutes * SecondsPerMinute

\* C27 witness: `*/12` followed by fields other than `*` has been evaluated
\* at 12:37:00 and gave 12:49:00.
C27_Witness ==
    /\ cron_out.returned
    /\ cron_in.cron_expr = StepExpression(MaxMinutes, OtherFields)
    /\ cron_in.now = 12 * SecondsPerHour + 37 * SecondsPerMinute
    /\ cron_out.value = cron_in.now + MaxMinutes * SecondsPerMinute

\* A committed tick dispatches task id in this step.
Dispatches(id) == dispatched'[id] = dispatched[id] + 1 /\ lastOp'.committed

\* Cron tasks whose expression does not have five fields.
Malformed(task) ==
    task.schedule_type = "cron" /\ FieldCount(task.cron_expression) # 5

\* The part of C28 about ticks: the tick that dispatches a task with a
\* malformed expression leaves its next_run_at null, and while the
\* expression stays as it is no later tick dispatches it.
MalformedStopsFiring ==
    \A id \in DOMAIN tasks :
        Malformed(tasks[id]) =>
            /\ Dispatches(id) => tasks'[id].next_run_at = NoneVal
            /\ tasks[id].next_run_at = NoneVal =>
                  /\ dispatched'[id] = dispatched[id]
                  /\ ItemsOf(queue', id) = ItemsOf(queue, id)
                  /\ tasks'[id] = tasks[id]

C29_StopLetsTickFinish ==
    /\ [][(worker = "ticking" /\ ~running /\ worker' # "ticking") =>
              /\ lastOp'.op = "tick"
              /\ worker' \in {"sleep", "backoff"}
              /\ lastOp'.queried =>
                    \A id \in DOMAIN tasks :
                       (QueryMatches(tasks[id], now) /\ ~Raises(tasks[id])) =>
                          /\ dispatched'[id] = dispatched[id] + 1
                          /\ ItemsOf(queue', id) = ItemsOf(queue, id) + 1]_vars
    /\ [][(worker = "check" /\ ~running) => worker' \in {"check", "exited"}]_vars
    /\ (~running /\ WorkerAlive) ~> (worker = "exited")

\* C29 witness: the worker's last loop body ended with the flag already
\* cleared, as a tick that pushed for a due task, and the thread has exited.
C29_Witness ==
    /\ worker = "exited" /\ ~running /\ ~tick_running
    /\ lastOp.op = "tick" /\ lastOp.queried /\ lastOp.pushed # {}

\* Between ticks a task that is due and stays in the registry keeps its
\* next_run_at, and a tick that does not dispatch it leaves it too.
StaysDueUntilDispatched ==
    \A id \in DOMAIN tasks \cap DOMAIN tasks' :
        (QueryMatches(tasks[id], now) /\ dispatched'[id] = dispatched[id]) =>
            tasks'[id].next_run_at = tasks[id].next_run_at

\* C30 as stated: with the loop running and the registry reachable, every
\* enabled task whose next_run_at has passed is dispatched by the next tick,
\* never skipped, and stays due with its next_run_at until a tick dispatches
\* it.
C30_DueIsDispatched ==
    [][/\ lastOp'.op = "tick" =>
            \A id \in DOMAIN tasks :
               QueryMatches(tasks[id], now) =>
                  /\ dispatched'[id] = dispatched[id] + 1
                  /\ ItemsOf(queue', id) = ItemsOf(queue, id) + 1
       /\ StaysDueUntilDispatched]_vars

\* C30, amended: with the loop running and the registry reachable, every
\* enabled task whose next_run_at has passed is dispatched by the next tick
\* unless building its WorkItem fails (its stored parameters do not parse);
\* a due task that is not dispatched stays due with its next_run_at.
C30_DueIsDispatchedUnlessItFails ==
    [][/\ lastOp'.op = "tick" =>
            \A id \in DOMAIN tasks :
               (QueryMatches(tasks[id], now) /\ ParamsLoad(tasks[id].params)) =>
                  /\ dispatched'[id] = dispatched[id] + 1
                  /\ ItemsOf(queue', id) = ItemsOf(queue, id) + 1
       /\ StaysDueUntilDispatched]_vars

\* C30 witness: a tick at time 2 has just dispatched a task, and passed over
\* one due since time 1 whose parameters do not parse, which is still due.
C30_Witness ==
    /\ lastOp.op = "tick" /\ lastOp.committed /\ now = 2
    /\ \E id \in lastOp.pushed :
          id \in DOMAIN tasks /\ tasks[id].last_run_at = now
    /\ \E id \in DOMAIN tasks \ lastOp.pushed :
          /\ ~ParamsLoad(tasks[id].params)
          /\ QueryMatches(tasks[id], now) /\ tasks[id].next_run_at < now
          /\ dispatched[id] = 0

ExpiredKeys(store, t) == {k \in DOMAIN store : Expired(store[k], t)}

\* The step removes key from the store.
Removes(key) == key \in DOMAIN public_store /\ key \notin DOMAIN public_store'

\* C32: every store operation is atomic under the one store lock: whatever
\* the interleaving of set, get, delete, sweep, list_keys, size and clear,
\* the store is what the calls give one after the other: while a sweep is
\* between its two loops no other call goes through, the sweep removes
\* exactly the entries that are expired for it when it ends, and a get that
\* evicts an expired key racing with the sweep of that key never makes
\* either fail and removes the key once.
C32_StoreOperationsAtomic ==
    [][/\ sweep_keys # NotCollected =>
            /\ lastStore'.op \in {"sweep", "sweep_error", "clock"}
            /\ lastStore'.op = "clock" => public_store' = public_store
       /\ lastStore'.op # "sweep_error"
       /\ (sweep_keys # NotCollected /\ sweep_keys' = NotCollected) =>
            /\ lastStore'.op = "sweep"
            /\ sweep_keys = ExpiredKeys(public_store, sweep_now)
            /\ public_store' = Without(public_store, sweep_keys)
            /\ lastStore'.value = Cardinality(sweep_keys)
       /\ (lastStore'.op = "get" /\ lastStore'.evicted) =>
            Removes(lastStore'.key)]_vars

\* C32 witness: a cleanup pass has read the clock and waits for the lock
\* while a get, at that same time, has just evicted an expired key, which
\* the pass would have removed; another entry is still in the store.
C32_Witness ==
    /\ lastStore.op = "get" /\ lastStore.evicted
    /\ sweep_now = now /\ sweep_keys = NotCollected
    /\ lastStore.key \notin DOMAIN public_store
    /\ public_store # <<>>

\* key holds an entry whose expire_at has passed.
HoldsExpired(key) ==
    key \in DOMAIN public_store /\ Expired(public_store[key], now)

\* C33: with the cleanup thread running, every entry whose expire_at has
\* passed is eventually removed from the store, whether or not a get is
\* ever issued for its key (a set gives an entry that has not expired, so
\* the key is rid of the expired entry as soon as it holds none).
C33_ExpiredEventuallySwept ==
    \A key \in StoreKeys : HoldsExpired(key) ~> ~HoldsExpired(key)

\* C33 witness: one cleanup pass has just removed every key there is, all
\* expired, and the store is empty.
C33_Witness ==
    /\ lastStore.op = "sweep" /\ lastStore.value = MaxKeys
    /\ public_store = <<>>

\* C38: set on an existing key replaces the value and the expiry: the entry
\* after set(k, v, ttl) is the one the call alone gives, whatever entry k had,
\* so a set without ttl over an entry with one leaves an entry that never
\* expires, and a set with ttl over one without leaves one expiring at
\* now + ttl.
C38_SetReplacesEntry ==
    [][lastStore'.op = "set" =>
          LET key == lastStore'.key
              ttl == lastStore'.ttl
          IN /\ DOMAIN public_store' = DOMAIN public_store \cup {key}
             /\ public_store'[key] =
                   [value |-> lastStore'.value,
                    expire_at |-> IF ttl = NoneVal THEN NoneVal ELSE now + ttl]
             /\ \A k \in DOMAIN public_store \ {key} :
                   public_store'[k] = public_store[k]]_vars

\* C38 witness: a set without ttl has just overwritten an entry that had
\* another value and had expired; the key has the new value and no
\* expire_at.
C38_Witness ==
    /\ lastStore.op = "set" /\ lastStore.ttl = NoneVal
    /\ replaced # NoEntry /\ Expired(replaced, now)
    /\ replaced.value # lastStore.value
    /\ public_store[lastStore.key] =
          [value |-> lastStore.value, expire_at |-> NoneVal]

\* C39: list_keys() and size() change nothing: an entry whose expire_at has
\* passed is listed and counted, and a key leaves the store only in a get
\* of that key, a cleanup pass, a delete or a clear.
C39_ListAndSizeReadOnly ==
    [][/\ lastStore'.op = "list_keys" =>
            /\ public_store' = public_store
            /\ lastStore'.keys = DOMAIN public_store
       /\ lastStore'.op = "size" =>
            /\ public_store' = public_store
            /\ lastStore'.value = Cardinality(DOMAIN public_store)
       /\ \A key \in StoreKeys :
            Removes(key) =>
               \/ lastStore'.op \in {"sweep", "clear"}
               \/ lastStore'.op \in {"get", "delete"} /\ lastStore'.key = key]_vars

\* C39 witness: list_keys has just returned two keys, one of them expired.
C39_Witness ==
    /\ lastStore.op = "list_keys"
    /\ lastStore.keys = DOMAIN public_store
    /\ Cardinality(lastStore.keys) = 2
    /\ \E key \in lastStore.keys : Expired(public_store[key], now)

\* C34: for any interleaving of start() and stop() calls on one Scheduler,
\* from several threads too, at most one loop thread is alive at any time,
\* so that no two ticks overlap.
C34_OneLoopThread ==
    /\ Cardinality(LiveThreads) <= 1
    /\ Cardinality({i \in DOMAIN threads : threads[i] = "ticking"}) <= 1

\* C35: whenever start() returns the scheduler is running: the running flag
\* is true and a loop thread is alive to execute further ticks, also when
\* start() follows a stop() whose join returned with the previous loop
\* thread still asleep.
C35_StartMeansRunning ==
    lastStart.op = "start" =>
        /\ running
        /\ \E i \in LiveThreads : TRUE

\* C36: under any interleaving of concurrent first calls of get_scheduler()
\* (of get_queue() likewise) exactly one instance is constructed, its
\* background thread is started exactly once, and every caller is returned
\* that instance.
C36_OneInstance ==
    /\ instances <= 1
    /\ \A i \in Getters : starts[i] <= 1
    /\ \A c \in Getters :
          getters[c].pc = "done" =>
             /\ instances = 1 /\ getters[c].got = 1 /\ global_ref = 1
             /\ getters[c].locked => starts[1] = 1
    /\ (\A c \in Getters : getters[c].pc = "done") => starts[1] = 1

\* C36 witness: every caller has returned, all of them after finding no
\* instance at the first test and going through the lock.
C36_Witness ==
    \A c \in Getters :
        /\ getters[c].pc = "done" /\ getters[c].locked
        /\ getters[c].got = global_ref

\* C37: when pause(id) commits while a tick that has selected task id is
\* between its query and its commit, the tick's commit does not undo the
\* pause: a task whose latest pause has not been followed by a resume has
\* enabled = false whatever ticks complete, a tick that starts selects no
\* such task, and a tick dispatches only what it selected.
C37_CommitKeepsPause ==
    [][/\ \A id \in held' \cap DOMAIN tasks' : ~tasks'[id].enabled
       /\ (~session.open /\ session'.open) =>
             DOMAIN session'.rows \cap held = {}
       /\ \A id \in TaskIds :
             dispatched'[id] > dispatched[id] =>
                session.open /\ id \in DOMAIN session.rows]_vars

\* C37 witness: a tick has committed the run of a repeating task that was
\* paused after the tick had selected it; the row carries the run and the
\* pause.
C37_Witness ==
    /\ ~session.open
    /\ lastOp.op = "tick" /\ lastOp.committed
    /\ \E id \in lastOp.pushed \cap held :
          /\ tasks[id].schedule_type = "interval" /\ tasks[id].max_runs = 0
          /\ tasks[id].run_count = 1 /\ tasks[id].last_run_at # NoneVal
          /\ ~tasks[id].enabled
====
